---- MODULE Spec2Model ----
(***************************************************************************)
(* State-machine model of the video conversion service                     *)
(* (api/unified_video_converter.py, api/simple_video_converter.py,         *)
(* api/video_converter.py).                                                *)
(*                                                                         *)
(* Conventions                                                             *)
(*  - A Python dict is a TLA+ function whose DOMAIN is the dict's key set. *)
(*  - A time string "H:MM:SS" is the sequence of its colon-separated       *)
(*    components, so str.split(':') is the sequence itself.                *)
(*  - Percentages are floats in the code.  They are held here in           *)
(*    hundredths of a percent (100.0 is 10000) and a float division is     *)
(*    the truncating integer division, which is monotone like the IEEE     *)
(*    one.                                                                 *)
(*  - A conversion id (uuid4) is the number of the POST that drew it.      *)
(***************************************************************************)
EXTENDS Integers, Sequences, FiniteSets, TLC

VARIABLES
    app,                  \* which server module is running
    conversion_progress,  \* module global: id -> progress record
    conversion_results,   \* module global: id -> result record
    request,              \* slot -> the POST /api/convert received in it
    hpc,                  \* slot -> position of its convert_video handler
    settings,             \* slot -> settings value held by the handler closure
    wpc,                  \* id -> position of its conversion_worker thread
    wl,                   \* id -> locals of the worker
    files,                \* id -> sizes of the input and output files on disk
    poller,               \* the get_progress request in flight
    response,             \* the HTTP response produced by the last step
    passlog,              \* the encoder's first-pass statistics file
    monitor,              \* the HealthMonitor object and its loop threads
    validator             \* the ConfigValidator object inside validate_all

vars == <<app, conversion_progress, conversion_results, request, hpc, settings,
          wpc, wl, files, poller, response, passlog, monitor, validator>>

\* The objects of the two command-line tools (monitor/health_monitor.py,
\* scripts/validate_config.py): no step of the service touches them.
offline == <<monitor, validator>>

----------------------------------------------------------------------------
(* Bounds *)

\* Number of POST /api/convert requests the model lets in.
MaxJobs == 2
\* Largest seconds component of a time the encoder reports.
MaxSec == 2

Slots == 1..MaxJobs
\* An id no submission ever draws (the tests poll "test-id").
UnknownId == 0
Ids == Slots \cup {UnknownId}

None == "None"

----------------------------------------------------------------------------
(* Python dict helpers *)

EmptyDict == [k \in {} |-> None]

\* d[k] = v
DictSet(d, k, v) == [x \in DOMAIN d \cup {k} |-> IF x = k THEN v ELSE d[x]]

\* d.update(e)
DictUpdate(d, e) == [x \in DOMAIN d \cup DOMAIN e |-> IF x \in DOMAIN e THEN e[x] ELSE d[x]]

\* d.get(k, default)
DictGet(d, k, default) == IF k \in DOMAIN d THEN d[k] ELSE default

\* Hundredths of a percent.
Pct(n) == n * 100

----------------------------------------------------------------------------
(* Configuration (config.py, conversion section) *)

\* conversion.default_settings
default_settings ==
    [quality |-> 32, bitrate |-> 1000, resolution |-> "original",
     frameRate |-> 30, preset |-> "web-standard", twoPass |-> FALSE]

\* The three presets simple_video_converter applies in its if / elif chain.
simple_presets ==
    [x \in {"web-standard", "high-quality", "max-compression"} |->
        CASE x = "web-standard" ->
               [quality |-> 32, bitrate |-> 2000, resolution |-> "original",
                frameRate |-> 30, twoPass |-> FALSE]
          [] x = "high-quality" ->
               [quality |-> 18, bitrate |-> 4000, resolution |-> "1920x1080",
                frameRate |-> 30, twoPass |-> TRUE]
          [] OTHER ->
               [quality |-> 45, bitrate |-> 1000, resolution |-> "854x480",
                frameRate |-> 24, twoPass |-> TRUE]]

\* conversion.presets of config.json, which is not among the source files:
\* the configured table is taken to be the one simple_video_converter
\* spells out.
presets == simple_presets

----------------------------------------------------------------------------
(* Settings *)

\* The `settings` form field of a POST.  "absent": the field is not sent.
\* "malformed": text json.loads rejects.  "nonobject": valid JSON that is not
\* an object (a list, a number).  "object": a JSON object, `items` its members.
FormSettings ==
    {[kind |-> "absent", items |-> EmptyDict],
     [kind |-> "malformed", items |-> EmptyDict],
     [kind |-> "nonobject", items |-> EmptyDict],
     [kind |-> "object", items |-> [twoPass |-> TRUE, preset |-> "custom"]]}

\* A parsed settings value: a dict, or a value of another JSON type.
JsonDict(d) == [type |-> "dict", items |-> d]
JsonOther == [type |-> "list", items |-> EmptyDict]

\* json.loads on the text of the form field.
json_loads(form) ==
    CASE form.kind = "malformed" -> [raised |-> TRUE, value |-> JsonOther]
      [] form.kind = "nonobject" -> [raised |-> FALSE, value |-> JsonOther]
      [] form.kind = "absent"    -> [raised |-> FALSE, value |-> JsonDict(EmptyDict)]
      [] OTHER                   -> [raised |-> FALSE, value |-> JsonDict(form.items)]

\* Mutation: json.loads without the try / except around it.
ParseSettingsNoCatch(form) ==
    json_loads(form)

\* convert_video: settings = request.form.get('settings', '{}'), then
\* json.loads inside try / except: settings = {}.
\* `raised` is an exception leaving the block.
ParseSettings(form) ==
    LET r == json_loads(form) IN
    IF r.raised THEN [raised |-> FALSE, value |-> JsonDict(EmptyDict)] ELSE r

\* Mutation: the preset's values are written over the explicit ones.
apply_preset_settings_preset_wins(s) ==
    IF s.type # "dict" THEN [raised |-> TRUE, value |-> EmptyDict]
    ELSE LET d == s.items
             preset == DictGet(d, "preset", "web-standard")
         IN  IF preset # "custom" /\ preset \in DOMAIN presets
             THEN [raised |-> FALSE,
                   value |-> DictSet(DictUpdate(d, presets[preset]), "preset", preset)]
             ELSE [raised |-> FALSE, value |-> DictUpdate(default_settings, d)]

\* UnifiedVideoConverter.apply_preset_settings.  A value without .get raises
\* AttributeError.
apply_preset_settings(s) ==
    IF s.type # "dict" THEN [raised |-> TRUE, value |-> EmptyDict]
    ELSE LET d == s.items
             preset == DictGet(d, "preset", "web-standard")
         IN  IF preset # "custom" /\ preset \in DOMAIN presets
             THEN LET explicit == [k \in DOMAIN d \ {"preset"} |-> d[k]] IN
                  [raised |-> FALSE,
                   value |-> DictSet(DictUpdate(presets[preset], explicit), "preset", preset)]
             ELSE [raised |-> FALSE, value |-> DictUpdate(default_settings, d)]

\* The conversion_settings built inside simple_video_converter's convert_video:
\* the six fields are read with their defaults, then a non-custom preset's
\* values are written over them; any exception gives the fixed defaults.
SimpleDefaults ==
    [quality |-> 32, bitrate |-> 1000, twoPass |-> FALSE,
     resolution |-> "original", frameRate |-> 30, preset |-> "web-standard"]

\* Mutation: the six fields are read and no preset is applied.
simple_conversion_settings_no_preset(form) ==
    LET r == json_loads(form) IN
    IF r.raised \/ r.value.type # "dict" THEN SimpleDefaults
    ELSE [k \in DOMAIN SimpleDefaults |-> DictGet(r.value.items, k, SimpleDefaults[k])]

simple_conversion_settings(form) ==
    LET r == json_loads(form) IN
    IF r.raised \/ r.value.type # "dict" THEN SimpleDefaults
    ELSE LET d == r.value.items
             cs == [k \in DOMAIN SimpleDefaults |-> DictGet(d, k, SimpleDefaults[k])]
         IN  IF cs["preset"] # "custom" /\ cs["preset"] \in DOMAIN simple_presets
             THEN DictUpdate(cs, simple_presets[cs["preset"]])
             ELSE cs

\* The settings objects clients send: any choice of the fields quality,
\* bitrate, twoPass and preset, the preset being one of the three known
\* ones, custom, or a name the server does not know.  The explicit quality
\* and bitrate differ from those of every preset.
PresetNames == DOMAIN simple_presets \cup {"custom", "archive"}

SettingsObjects ==
    {[k \in K |-> f[k]] :
        f \in [quality : {20}, bitrate : {500}, twoPass : BOOLEAN, preset : PresetNames],
        K \in SUBSET {"quality", "bitrate", "twoPass", "preset"}}

----------------------------------------------------------------------------
(* Duration probe *)

\* A duration entry of the inspection output: missing, text float() accepts
\* (its value, in seconds), or text it rejects ("N/A").
Missing == [present |-> FALSE, numeric |-> FALSE, value |-> 0]
Seconds(n) == [present |-> TRUE, numeric |-> TRUE, value |-> n]
NotANumber == [present |-> TRUE, numeric |-> FALSE, value |-> 0]

\* What the media inspection finds for an input file.  `raises`: ffmpeg.probe
\* raises.  `streams`: the 'duration' entry of each stream.  `format`: the
\* container's 'duration'.  `tool`: stdout of the direct ffprobe call,
\* Missing when it fails, times out or prints nothing.
ProbeRaises == [raises |-> TRUE, streams |-> <<>>, format |-> Missing, tool |-> Missing]

ProbeStream(d) == [raises |-> FALSE, streams |-> <<d>>, format |-> Missing, tool |-> Missing]

RECURSIVE FirstStreamDuration(_)
FirstStreamDuration(streams) ==
    IF streams = <<>> THEN Missing
    ELSE IF Head(streams).present THEN Head(streams)
    ELSE FirstStreamDuration(Tail(streams))

\* The fixed default of get_video_duration.
DefaultDuration == 60

\* return float(text); a ValueError is caught by the enclosing try and the
\* function falls through to the default.
FloatOrDefault(text) == IF text.numeric THEN text.value ELSE DefaultDuration

\* Mutation: a failed inspection is reported as a zero duration.
get_video_duration_zero_on_failure(p) ==
    IF p.raises THEN 0
    ELSE LET sd == FirstStreamDuration(p.streams) IN
         IF sd.present THEN (IF sd.numeric THEN sd.value ELSE 0)
         ELSE IF p.format.present THEN (IF p.format.numeric THEN p.format.value ELSE 0)
         ELSE IF p.tool.present THEN (IF p.tool.numeric THEN p.tool.value ELSE 0)
         ELSE 0

\* get_video_duration: the first of stream, container and tool durations
\* that is present is converted; anything raised inside the try, the
\* conversion included, ends in the default.
get_video_duration(p) ==
    IF p.raises THEN DefaultDuration
    ELSE LET sd == FirstStreamDuration(p.streams) IN
         IF sd.present THEN FloatOrDefault(sd)
         ELSE IF p.format.present THEN FloatOrDefault(p.format)
         ELSE IF p.tool.present THEN FloatOrDefault(p.tool)
         ELSE DefaultDuration

\* Where get_video_duration's return value comes from: the return
\* statement of the stream loop, of the container test or of the tool test,
\* or the final `return 60.0`.
duration_source(p) ==
    IF p.raises THEN "default"
    ELSE LET sd == FirstStreamDuration(p.streams) IN
         IF sd.present THEN (IF sd.numeric THEN "stream" ELSE "default")
         ELSE IF p.format.present THEN (IF p.format.numeric THEN "format" ELSE "default")
         ELSE IF p.tool.present THEN (IF p.tool.numeric THEN "tool" ELSE "default")
         ELSE "default"

\* The strategies get_video_duration gets to, in order.  ffmpeg.probe is the
\* call of the stream strategy; an exception anywhere leaves the try block,
\* so what follows the raising statement is not executed.
strategies_tried(p) ==
    IF p.raises THEN <<"stream">>
    ELSE IF FirstStreamDuration(p.streams).present THEN <<"stream">>
    ELSE IF p.format.present THEN <<"stream", "format">>
    ELSE <<"stream", "format", "tool">>

\* No inspection has been made.
NoProbe == [raises |-> FALSE, streams |-> <<>>, format |-> Missing, tool |-> Missing]

\* The inspections the service model draws from: a clip of MaxSec seconds,
\* a stream that reports a zero duration, and a failing inspection.
Probes == {ProbeStream(Seconds(MaxSec)), ProbeStream(Seconds(0)), ProbeRaises}

----------------------------------------------------------------------------
(* Progress parser and time-to-progress computation *)

\* A line of the encoder's stderr.  `hasTime`: the text "time=" occurs in it.
\* `time`: what the time pattern H{1,2}:MM:SS(.ff)? captures, as its
\* colon-separated components, <<>> when the pattern does not match
\* ("time=N/A").  `fps`, `speed`: the captured values, <<>> when absent.
Line(hasTime, time, fps, speed) ==
    [hasTime |-> hasTime, time |-> time, fps |-> fps, speed |-> speed]

\* '00:00:00'
ZeroTime == <<0, 0, 0>>

\* parse_ffmpeg_progress: defaults, overwritten by each pattern that matches.
parse_ffmpeg_progress(line) ==
    [progress |-> 0,
     time     |-> IF line.time # <<>> THEN line.time ELSE ZeroTime,
     fps      |-> IF line.fps # <<>> THEN line.fps[1] ELSE 0,
     speed    |-> IF line.speed # <<>> THEN line.speed[1] ELSE "0x",
     eta      |-> "00:00:00"]

Min(a, b) == IF a <= b THEN a ELSE b

\* Mutation: current_time = seconds, hours and minutes dropped.
TimeProgressSecondsOnly(time_parts, duration, lo, span) ==
    LET n == Len(time_parts)
        seconds == IF n > 2 THEN time_parts[3] ELSE time_parts[n]
    IN  Pct(lo) + Min(Pct(span), (seconds * Pct(span)) \div duration)

\* Mutation: the scaled fraction is stored without min(...) around it.
TimeProgressUnclamped(time_parts, duration, lo, span) ==
    LET n == Len(time_parts)
        hours == IF n > 2 THEN time_parts[1] ELSE 0
        minutes == IF n > 1 THEN time_parts[2] ELSE 0
        seconds == IF n > 2 THEN time_parts[3] ELSE time_parts[n]
        current_time == hours * 3600 + minutes * 60 + seconds
    IN  IF n = 0 THEN Pct(lo)
        ELSE Pct(lo) + (current_time * Pct(span)) \div duration

\* The try block of the pass loops: split the time on ':', read hours,
\* minutes and seconds, and scale by the pass's span.  `lo` is the pass's
\* floor (0, or 50 in pass 2) and `span` its width (100, or 50 in a two-pass
\* job), both in percent.  A component float() rejects is a negative entry:
\* it raises ValueError, and the except branch yields the floor.
TimeProgress(time_parts, duration, lo, span) ==
    LET n == Len(time_parts)
        hours == IF n > 2 THEN time_parts[1] ELSE 0
        minutes == IF n > 1 THEN time_parts[2] ELSE 0
        seconds == IF n > 2 THEN time_parts[3] ELSE time_parts[n]
        current_time == hours * 3600 + minutes * 60 + seconds
        converted == IF n > 2 THEN {1, 2, 3} ELSE {n}
    IN  IF n = 0 \/ \E i \in converted : time_parts[i] < 0
        THEN Pct(lo)
        ELSE Pct(lo) + Min(Pct(span), (current_time * Pct(span)) \div duration)

\* The record a pass loop stores for a line that contains "time=".
ProgressRecord(line, duration, lo, span) ==
    LET progress_data == parse_ffmpeg_progress(line) IN
    [progress |-> TimeProgress(progress_data.time, duration, lo, span),
     status   |-> "processing",
     time     |-> progress_data.time,
     fps      |-> progress_data.fps,
     speed    |-> progress_data.speed,
     eta      |-> progress_data.eta]

\* The lines an encoder may print: a line without progress, a line whose
\* time does not match the pattern, and progress lines for each second of
\* the clip, for one minute and for one hour.
ProgressLines ==
    {Line(TRUE, <<0, 0, s>>, <<25>>, <<"1.1x">>) : s \in 0..MaxSec}
    \cup {Line(TRUE, <<0, 1, 0>>, <<25>>, <<"1.1x">>)}
EncoderLines ==
    ProgressLines
    \cup {Line(FALSE, <<>>, <<>>, <<>>), Line(TRUE, <<>>, <<25>>, <<>>)}

----------------------------------------------------------------------------
(* Encoder commands *)

\* str(n) for a natural number.
Digits == <<"0", "1", "2", "3", "4", "5", "6", "7", "8", "9">>

RECURSIVE Str(_)
Str(n) == IF n < 10 THEN Digits[n + 1] ELSE Str(n \div 10) \o Digits[(n % 10) + 1]

\* The paths convert_video derives from the conversion id.
InputPath(id) == "uploads/" \o Str(id) \o "_video.mp4"
OutputPath(id) == "outputs/" \o Str(id) \o "_video.webm"

\* The resolutions the builder recognizes, and f'scale={width}:{height}'
\* of the two halves resolution.split('x') gives for each.
ScaledResolutions == {"1920x1080", "1280x720", "854x480"}

ScaleFilter(resolution) ==
    CASE resolution = "1920x1080" -> "scale=1920:1080"
      [] resolution = "1280x720"  -> "scale=1280:720"
      [] OTHER                    -> "scale=854:480"

\* Mutation: every resolution other than original is scaled to.
build_ffmpeg_command_scales_any(input_path, output_path, s) ==
    LET resolution == DictGet(s, "resolution", "original")
        frame_rate == DictGet(s, "frameRate", 30)
    IN  <<"ffmpeg", "-i", input_path, "-c:v", "libvpx-vp9",
          "-crf", Str(DictGet(s, "quality", 32)),
          "-b:v", Str(DictGet(s, "bitrate", 1000)) \o "k",
          "-deadline", "good", "-cpu-used", "4", "-auto-alt-ref", "0">>
        \o (IF resolution # "original" THEN <<"-vf", "scale=" \o resolution>> ELSE <<>>)
        \o (IF frame_rate # 30 THEN <<"-r", Str(frame_rate)>> ELSE <<>>)
        \o <<"-f", "webm", "-y", output_path>>

\* UnifiedVideoConverter._build_ffmpeg_command
build_ffmpeg_command(input_path, output_path, s) ==
    LET resolution == DictGet(s, "resolution", "original")
        frame_rate == DictGet(s, "frameRate", 30)
    IN  <<"ffmpeg", "-i", input_path, "-c:v", "libvpx-vp9",
          "-crf", Str(DictGet(s, "quality", 32)),
          "-b:v", Str(DictGet(s, "bitrate", 1000)) \o "k",
          "-deadline", "good", "-cpu-used", "4", "-auto-alt-ref", "0">>
        \o (IF resolution # "original" /\ resolution \in ScaledResolutions
            THEN <<"-vf", ScaleFilter(resolution)>> ELSE <<>>)
        \o (IF frame_rate # 30 THEN <<"-r", Str(frame_rate)>> ELSE <<>>)
        \o <<"-f", "webm", "-y", output_path>>

\* The command list of SimpleVideoConverter.convert_video_with_progress.
simple_command(input_path, output_path, s) ==
    <<"ffmpeg", "-i", input_path, "-c:v", "libvpx-vp9",
      "-crf", Str(DictGet(s, "quality", 32)),
      "-b:v", Str(DictGet(s, "bitrate", 1000)) \o "k",
      "-preset", "medium", "-deadline", "good", "-cpu-used", "4",
      "-auto-alt-ref", "0", "-f", "webm", "-y", output_path>>

\* base_cmd[:-2]
ButLastTwo(cmd) == SubSeq(cmd, 1, Len(cmd) - 2)

\* first_pass_cmd = base_cmd[:-2] + ['-pass', '1', '-f', 'null', '-']
first_pass_cmd(base_cmd) == ButLastTwo(base_cmd) \o <<"-pass", "1", "-f", "null", "-">>

\* second_pass_cmd = base_cmd[:-2] + ['-pass', '2', output_path], where
\* output_path = base_cmd[-1]
second_pass_cmd(base_cmd) ==
    ButLastTwo(base_cmd) \o <<"-pass", "2", base_cmd[Len(base_cmd)]>>

----------------------------------------------------------------------------
(* monitor/health_monitor.py: the HealthMonitor object *)

\* Number of monitoring threads the model lets start_monitoring create.
MaxThreads == 2
\* Number of health checks the model lets a monitor perform.
MaxChecks == 5

Threads == 1..MaxThreads
\* monitor_thread = None; also the thread of a direct check_health call.
NoThread == 0

\* self.alert_threshold, self.max_history
alert_threshold == 3
max_history == 100

\* What requests.get and response.json() do in one check: a 200 with a
\* JSON body, a 200 whose body is not JSON (response.json() raises), another
\* HTTP status, a refused connection, a timeout.
Outcomes == {"ok", "not_json", "http_500", "refused", "timeout"}

\* HealthMonitor.__init__.  `loops`: the position of each thread running
\* _monitor_loop ("unstarted" before start_monitoring creates it).
\* `joining`: the caller is inside the join of stop_monitoring.
\* `performed` is history: for every check_health call, in order, the
\* status it returned, the thread that made it, the thread monitor_thread
\* named then, the callbacks registered then and the callbacks it invoked.
NewHealthMonitor ==
    [alert_callbacks |-> <<>>,
     consecutive_failures |-> 0,
     health_history |-> <<>>,
     monitoring_active |-> FALSE,
     monitor_thread |-> NoThread,
     loops |-> [t \in Threads |-> "unstarted"],
     joining |-> FALSE,
     performed |-> <<>>]

\* The HealthStatus check_health builds for an outcome.  `timestamp` is
\* the number of the check; status_code is <<>> for None.
HealthStatus(timestamp, outcome) ==
    [timestamp |-> timestamp,
     is_healthy |-> (outcome = "ok"),
     status_code |-> CASE outcome = "ok" -> <<200>>
                       [] outcome = "http_500" -> <<500>>
                       [] OTHER -> <<>>,
     error_message |-> CASE outcome = "ok" -> "None"
                         [] outcome = "http_500" -> "HTTP 500"
                         [] outcome = "refused" -> "Connection refused - service may be down"
                         [] outcome = "timeout" -> "Request timeout after 5s"
                         [] OTHER -> "Unexpected error"]

\* self.consecutive_failures = 0 on the healthy branch, += 1 on every other.
count_failures(consecutive_failures, status) ==
    IF status.is_healthy THEN 0 ELSE consecutive_failures + 1

\* Mutation: the newest entry is dropped when the bound is exceeded.
append_history_drop_newest(health_history, status) ==
    LET h == Append(health_history, status) IN
    IF Len(h) > max_history THEN SubSeq(h, 1, Len(h) - 1) ELSE h

\* self.health_history.append(status), then pop(0) when the list is longer
\* than max_history.
append_history(health_history, status) ==
    LET h == Append(health_history, status) IN
    IF Len(h) > max_history THEN Tail(h) ELSE h

\* Mutation: the alert needs more than alert_threshold failures.
should_alert_above_threshold(status, consecutive_failures) ==
    ~status.is_healthy /\ consecutive_failures > alert_threshold

\* if not status.is_healthy and self.consecutive_failures >= self.alert_threshold
should_alert(status, consecutive_failures) ==
    ~status.is_healthy /\ consecutive_failures >= alert_threshold

\* The monitor after one check_health call made by `thread`: the counter,
\* the history, and _trigger_alerts calling every registered callback in
\* order (an exception of a callback is caught and logged).
check_health_by(m, thread, outcome) ==
    LET status == HealthStatus(Len(m.performed) + 1, outcome)
        failures == count_failures(m.consecutive_failures, status)
    IN  [m EXCEPT !.consecutive_failures = failures,
                  !.health_history = append_history(@, status),
                  !.performed =
                      Append(@, [status |-> status,
                                 thread |-> thread,
                                 monitor_thread |-> m.monitor_thread,
                                 registered |-> m.alert_callbacks,
                                 invoked |-> IF should_alert(status, failures)
                                             THEN m.alert_callbacks ELSE <<>>])]

----------------------------------------------------------------------------
(* scripts/validate_config.py: the ConfigValidator object *)

\* validate_config is not running.
NoValidator == [pc |-> 0, returned |-> <<>>]

----------------------------------------------------------------------------
(* State *)

\* A file that is not on disk.
Absent == -1

InputSizes == {0, 1000}
OutputSizes == {400, 1500}

\* The POSTs to /api/convert the clients send: without a `file` part, with
\* an empty file name, or with a file of some size and a settings field.
Requests ==
    {[file |-> "missing", size |-> 0, form |-> [kind |-> "absent", items |-> EmptyDict]],
     [file |-> "empty", size |-> 0, form |-> [kind |-> "absent", items |-> EmptyDict]]}
    \cup [file : {"ok"}, size : InputSizes, form : FormSettings]

NoRequest == [file |-> "none", size |-> 0, form |-> [kind |-> "absent", items |-> EmptyDict]]

\* An HTTP response: the endpoint and id it answers, and for POST
\* /api/convert the request it answers.
Answer(endpoint, id, req, code, body) ==
    [endpoint |-> endpoint, id |-> id, request |-> req, code |-> code, body |-> body]

NoResponse == Answer("none", UnknownId, NoRequest, 0, EmptyDict)

Response(endpoint, id, code, body) == Answer(endpoint, id, NoRequest, code, body)

IdlePoller == [pc |-> "idle", id |-> UnknownId, data |-> EmptyDict]

\* ffmpeg2pass-0.log in the working directory of the server: the id of the
\* job whose pass 1 last opened or wrote it, NoStats when there is none.
NoStats == UnknownId

\* The locals of a worker.  `caught`: the exception convert_video_with_progress
\* caught and logged, "" when none.  `seen` and `before` are history: whether
\* the current pass has stored a record, and the time and progress of the
\* record it stored before the latest one (<<>> when there is none).
\* `returncode1`: process.returncode of pass 1, <<>> until pass 1 has exited.
\* `probe`: what the inspection found for the input, NoProbe until it is made.
\* `cmd`: the command list built for the job, <<>> until it is built.
\* `launched`: the argument lists passed to subprocess.Popen so far.
\* `stats`: the job whose statistics the encoder of pass 2 read from the
\* first-pass statistics file, <<>> until it has read them.
InitLocals ==
    [final_settings |-> EmptyDict, duration |-> 0, success |-> FALSE,
     caught |-> "", error_msg |-> "", seen |-> FALSE, before |-> <<>>,
     returncode1 |-> <<>>, probe |-> NoProbe, cmd |-> <<>>, launched |-> <<>>,
     stats |-> <<>>]

\* The record convert_video stores before it starts the worker.
InitialProgress ==
    [progress |-> 0, status |-> "processing", time |-> ZeroTime,
     fps |-> 0, speed |-> "0x", eta |-> "00:00:00"]

Init ==
    /\ app = "unified"
    /\ conversion_progress = EmptyDict
    /\ conversion_results = EmptyDict
    /\ request = [s \in Slots |-> NoRequest]
    /\ hpc = [s \in Slots |-> "idle"]
    /\ settings = [s \in Slots |-> JsonDict(EmptyDict)]
    /\ wpc = [s \in Slots |-> "none"]
    /\ wl = [s \in Slots |-> InitLocals]
    /\ files = [s \in Slots |-> [input |-> Absent, output |-> Absent]]
    /\ poller = IdlePoller
    /\ response = NoResponse
    /\ passlog = NoStats
    /\ monitor = NewHealthMonitor
    /\ validator = NoValidator

----------------------------------------------------------------------------
(* POST /api/convert *)

\* Mutation: the thread is started before the initial record is stored.
convert_video_start_first(s, req) ==
    /\ req.file = "ok"
    /\ hpc[s] = "idle"
    /\ request' = [request EXCEPT ![s] = req]
    /\ settings' = [settings EXCEPT ![s] = JsonDict(EmptyDict)]
    /\ files' = [files EXCEPT ![s].input = req.size]
    /\ hpc' = [hpc EXCEPT ![s] = "started"]
    /\ wpc' = [wpc EXCEPT ![s] = "ready"]
    /\ response' = NoResponse
    /\ UNCHANGED <<offline, passlog, app, conversion_progress, conversion_results, wl, poller>>

\* Mutation: the id is drawn and the initial record stored before the file
\* part is validated.
convert_video_validate_late(s, req) ==
    /\ hpc[s] = "idle"
    /\ conversion_progress' = DictSet(conversion_progress, s, InitialProgress)
    /\ IF req.file # "ok"
       THEN /\ response' = Answer("convert", UnknownId, req, 400, [error |-> "No file provided"])
            /\ UNCHANGED <<request, hpc, settings, files>>
       ELSE /\ request' = [request EXCEPT ![s] = req]
            /\ settings' = [settings EXCEPT ![s] = ParseSettings(req.form).value]
            /\ files' = [files EXCEPT ![s].input = req.size]
            /\ hpc' = [hpc EXCEPT ![s] = "registered"]
            /\ response' = NoResponse
    /\ UNCHANGED <<offline, passlog, app, conversion_results, wpc, wl, poller>>

\* convert_video up to the point where the worker thread is created: the two
\* 400 answers, then settings parsing, the id, the saved upload and the
\* initial progress record.  s is the id uuid4 would draw next: a rejected
\* POST draws none.
convert_video(s, req) ==
    /\ IF req.file = "missing"
       THEN /\ response' = Answer("convert", UnknownId, req, 400, [error |-> "No file provided"])
            /\ UNCHANGED <<conversion_progress, request, hpc, settings, files>>
       ELSE IF req.file = "empty"
       THEN /\ response' = Answer("convert", UnknownId, req, 400, [error |-> "No file selected"])
            /\ UNCHANGED <<conversion_progress, request, hpc, settings, files>>
       ELSE /\ hpc[s] = "idle"
            /\ \A t \in Slots : t < s => hpc[t] # "idle"
            /\ IF app = "unified" /\ ParseSettings(req.form).raised
               THEN \* the handler's outer except
                    /\ response' = Answer("convert", UnknownId, req, 500, [error |-> "exception"])
                    /\ UNCHANGED <<conversion_progress, request, hpc, settings, files>>
               ELSE /\ request' = [request EXCEPT ![s] = req]
                    /\ settings' = [settings EXCEPT ![s] =
                                       IF app = "unified"
                                       THEN ParseSettings(req.form).value
                                       ELSE JsonDict(simple_conversion_settings(req.form))]
                    /\ files' = [files EXCEPT ![s].input = req.size]
                    /\ conversion_progress' = DictSet(conversion_progress, s, InitialProgress)
                    /\ hpc' = [hpc EXCEPT ![s] = "registered"]
                    /\ response' = NoResponse
    /\ UNCHANGED <<offline, passlog, app, conversion_results, wpc, wl, poller>>

\* thread = threading.Thread(target=conversion_worker); thread.start()
start_worker(s) ==
    /\ hpc[s] = "registered"
    /\ hpc' = [hpc EXCEPT ![s] = "started"]
    /\ wpc' = [wpc EXCEPT ![s] = "ready"]
    /\ response' = NoResponse
    /\ UNCHANGED <<offline, passlog, app, conversion_progress, conversion_results, request, settings,
                   wl, files, poller>>

\* return jsonify({'conversion_id': ..., 'message': ...})
return_conversion_id(s) ==
    /\ hpc[s] = "started"
    /\ hpc' = [hpc EXCEPT ![s] = "returned"]
    /\ response' = Answer("convert", s, request[s], 200, [conversion_id |-> s])
    /\ UNCHANGED <<offline, passlog, app, conversion_progress, conversion_results, request, settings,
                   wpc, wl, files, poller>>

----------------------------------------------------------------------------
(* conversion_worker *)

\* Mutation: convert_video_with_progress and the worker have no except
\* clause, so an exception ends the thread where it is raised.
worker_begin_uncaught(j, probe, launches) ==
    /\ wpc[j] = "ready"
    /\ LET applied == IF app = "unified" THEN apply_preset_settings(settings[j])
                      ELSE [raised |-> FALSE, value |-> settings[j].items]
           duration == get_video_duration(probe)
           twoPass == DictGet(applied.value, "twoPass", FALSE)
       IN  IF applied.raised
           THEN /\ wl' = [wl EXCEPT ![j].caught = "AttributeError"]
                /\ wpc' = [wpc EXCEPT ![j] = "end"]
           ELSE IF duration = 0
           THEN /\ wl' = [wl EXCEPT ![j].final_settings = applied.value]
                /\ wpc' = [wpc EXCEPT ![j] = "check"]
           ELSE IF ~launches
           THEN /\ wl' = [wl EXCEPT ![j].final_settings = applied.value,
                                    ![j].duration = duration,
                                    ![j].caught = "OSError"]
                /\ wpc' = [wpc EXCEPT ![j] = "end"]
           ELSE /\ wl' = [wl EXCEPT ![j].final_settings = applied.value,
                                    ![j].duration = duration]
                /\ wpc' = [wpc EXCEPT ![j] = IF twoPass THEN "pass1" ELSE "single"]
    /\ passlog' = IF wpc'[j] = "pass1" THEN j ELSE passlog
    /\ response' = NoResponse
    /\ UNCHANGED <<offline, app, conversion_progress, conversion_results, request, hpc,
                   settings, files, poller>>

\* convert_video_with_progress up to the first Popen: preset expansion
\* (unified only), the duration probe with its zero check, the command, and
\* the launch of the single pass or of pass 1.  `probe` is what the
\* inspection finds and `launches` whether Popen succeeds.  Every exception
\* is caught by the function's own try and makes it return False.  The
\* encoder of pass 1 opens the statistics file ffmpeg2pass-0.log, which no
\* argument of the command names, so it is the same file for every job.
worker_begin(j, probe, launches) ==
    /\ wpc[j] = "ready"
    /\ LET applied == IF app = "unified" THEN apply_preset_settings(settings[j])
                      ELSE [raised |-> FALSE, value |-> settings[j].items]
           duration == get_video_duration(probe)
           twoPass == DictGet(applied.value, "twoPass", FALSE)
           cmd == IF app = "unified"
                  THEN build_ffmpeg_command(InputPath(j), OutputPath(j), applied.value)
                  ELSE simple_command(InputPath(j), OutputPath(j), applied.value)
           first == IF twoPass THEN first_pass_cmd(cmd) ELSE cmd
       IN  IF applied.raised
           THEN /\ wl' = [wl EXCEPT ![j].caught = "AttributeError", ![j].success = FALSE]
                /\ wpc' = [wpc EXCEPT ![j] = "check"]
           ELSE IF duration = 0
           THEN /\ wl' = [wl EXCEPT ![j].final_settings = applied.value,
                                    ![j].probe = probe,
                                    ![j].success = FALSE]
                /\ wpc' = [wpc EXCEPT ![j] = "check"]
           ELSE IF ~launches
           THEN /\ wl' = [wl EXCEPT ![j].final_settings = applied.value,
                                    ![j].probe = probe,
                                    ![j].duration = duration,
                                    ![j].cmd = cmd,
                                    ![j].launched = <<first>>,
                                    ![j].caught = "OSError",
                                    ![j].success = FALSE]
                /\ wpc' = [wpc EXCEPT ![j] = "check"]
           ELSE /\ wl' = [wl EXCEPT ![j].final_settings = applied.value,
                                    ![j].probe = probe,
                                    ![j].duration = duration,
                                    ![j].cmd = cmd,
                                    ![j].launched = <<first>>]
                /\ wpc' = [wpc EXCEPT ![j] = IF twoPass THEN "pass1" ELSE "single"]
    /\ passlog' = IF wpc'[j] = "pass1" THEN j ELSE passlog
    /\ response' = NoResponse
    /\ UNCHANGED <<offline, app, conversion_progress, conversion_results, request, hpc,
                   settings, files, poller>>

\* Mutation: pass 2 computed like pass 1, without the 50 added.
PassLoZero(pc) == 0

\* Mutation: every pass is scaled over the whole 0 to 100 range.
PassSpanFull(pc) == 100

\* The floor and the span of the pass a worker is in.
PassLo(pc) == IF pc = "pass2" THEN 50 ELSE 0
PassSpan(pc) == IF pc = "single" THEN 100 ELSE 50

\* Mutation: the pass loop stores its record under every id that is still
\* processing, as if the progress record were one shared global.
progress_line_shared_record(j, line) ==
    /\ wpc[j] \in {"single", "pass1", "pass2"}
    /\ IF line.hasTime
       THEN /\ conversion_progress' =
                  [k \in DOMAIN conversion_progress |->
                      IF k = j \/ conversion_progress[k]["status"] = "processing"
                      THEN ProgressRecord(line, wl[j].duration, PassLo(wpc[j]), PassSpan(wpc[j]))
                      ELSE conversion_progress[k]]
            /\ wl' = [wl EXCEPT ![j].seen = TRUE, ![j].before = <<>>]
       ELSE UNCHANGED <<conversion_progress, wl>>
    /\ response' = NoResponse
    /\ UNCHANGED <<offline, passlog, app, conversion_results, request, hpc, settings, wpc, files, poller>>

\* One iteration of `for line in process.stderr`: a line that contains
\* "time=" replaces the job's whole progress record.
progress_line(j, line) ==
    /\ wpc[j] \in {"single", "pass1", "pass2"}
    /\ IF line.hasTime
       THEN /\ conversion_progress' =
                  DictSet(conversion_progress, j,
                          ProgressRecord(line, wl[j].duration, PassLo(wpc[j]), PassSpan(wpc[j])))
            /\ wl' = [wl EXCEPT ![j].seen = TRUE,
                                ![j].before =
                                    IF wl[j].seen
                                    THEN <<[time |-> conversion_progress[j]["time"],
                                            progress |-> conversion_progress[j]["progress"]]>>
                                    ELSE <<>>]
       ELSE UNCHANGED <<conversion_progress, wl>>
    /\ response' = NoResponse
    /\ UNCHANGED <<offline, passlog, app, conversion_results, request, hpc, settings, wpc, files, poller>>

\* Mutation: pass 2 is launched whatever pass 1 returned.
pass_exit_ignores_returncode(j, rc, out, launches) ==
    /\ wpc[j] \in {"single", "pass1", "pass2"}
    /\ IF wpc[j] = "pass1"
       THEN /\ out = Absent
            /\ wpc' = [wpc EXCEPT ![j] = "pass2"]
            /\ wl' = [wl EXCEPT ![j].returncode1 = <<rc>>,
                                ![j].seen = FALSE, ![j].before = <<>>]
            /\ files' = files
       ELSE /\ launches
            /\ files' = [files EXCEPT ![j].output = out]
            /\ wl' = [wl EXCEPT ![j].success = (rc = 0),
                                ![j].seen = FALSE, ![j].before = <<>>]
            /\ wpc' = [wpc EXCEPT ![j] = "check"]
    /\ passlog' = IF wpc[j] = "pass1" /\ rc = 0 THEN j ELSE passlog
    /\ response' = NoResponse
    /\ UNCHANGED <<offline, app, conversion_progress, conversion_results, request, hpc,
                   settings, poller>>

\* The stream closes and process.wait() returns `rc`.  After pass 1 a
\* non-zero code returns False and a zero code launches pass 2 (`launches`:
\* whether that Popen succeeds).  The last pass leaves `out` on disk (Absent:
\* no file) and returns rc == 0.  An encoder of pass 1 that exits with 0
\* has written its statistics to the statistics file.
pass_exit(j, rc, out, launches) ==
    /\ wpc[j] \in {"single", "pass1", "pass2"}
    /\ IF wpc[j] = "pass1"
       THEN /\ out = Absent
            /\ IF rc = 0 /\ launches
               THEN /\ wpc' = [wpc EXCEPT ![j] = "pass2"]
                    /\ wl' = [wl EXCEPT ![j].returncode1 = <<rc>>,
                                        ![j].launched = Append(@, second_pass_cmd(wl[j].cmd)),
                                        ![j].seen = FALSE, ![j].before = <<>>]
               ELSE /\ wpc' = [wpc EXCEPT ![j] = "check"]
                    /\ wl' = [wl EXCEPT ![j].returncode1 = <<rc>>,
                                        ![j].launched =
                                            IF rc = 0
                                            THEN Append(@, second_pass_cmd(wl[j].cmd))
                                            ELSE @,
                                        ![j].success = FALSE,
                                        ![j].caught = IF rc = 0 THEN "OSError" ELSE "",
                                        ![j].seen = FALSE, ![j].before = <<>>]
            /\ files' = files
       ELSE /\ launches
            /\ files' = [files EXCEPT ![j].output = out]
            /\ wl' = [wl EXCEPT ![j].success = (rc = 0),
                                ![j].seen = FALSE, ![j].before = <<>>]
            /\ wpc' = [wpc EXCEPT ![j] = "check"]
    /\ passlog' = IF wpc[j] = "pass1" /\ rc = 0 THEN j ELSE passlog
    /\ response' = NoResponse
    /\ UNCHANGED <<offline, app, conversion_progress, conversion_results, request, hpc,
                   settings, poller>>

\* The encoder of pass 2 reads the first-pass statistics when it starts:
\* second_pass_cmd names no statistics file either, so it reads the one
\* file of the working directory, whatever job wrote to it last.
pass2_reads_stats(j) ==
    /\ wpc[j] = "pass2"
    /\ wl[j].stats = <<>>
    /\ wl' = [wl EXCEPT ![j].stats = <<passlog>>]
    /\ response' = NoResponse
    /\ UNCHANGED <<offline, passlog, app, conversion_progress, conversion_results, request,
                   hpc, settings, wpc, files, poller>>

\* Mutation: the share of the input that is left, output_size / input_size * 100.
compression_ratio_kept(input_size, output_size) ==
    (output_size * Pct(100)) \div input_size

\* (1 - output_size / input_size) * 100, in hundredths of a percent.
compression_ratio(input_size, output_size) ==
    Pct(100) - (output_size * Pct(100)) \div input_size

\* Mutation: the status is set to completed before the result is stored.
worker_check_status_first(j) ==
    /\ wpc[j] = "check"
    /\ IF wl[j].success /\ files[j].output # Absent /\ files[j].input # 0
       THEN /\ conversion_progress' =
                  [conversion_progress EXCEPT ![j] = DictSet(@, "status", "completed")]
            /\ wpc' = [wpc EXCEPT ![j] = "completed_status"]
            /\ UNCHANGED wl
       ELSE /\ wl' = [wl EXCEPT ![j].error_msg = "FFmpeg conversion process failed"]
            /\ wpc' = [wpc EXCEPT ![j] = "error_status"]
            /\ UNCHANGED conversion_progress
    /\ response' = NoResponse
    /\ UNCHANGED <<offline, passlog, app, conversion_results, request, hpc, settings, files, poller>>

\* Mutation: the worker trusts the exit code and does not test for the
\* output file.
worker_check_success_only(j) ==
    /\ wpc[j] = "check"
    /\ IF wl[j].success
       THEN /\ conversion_results' =
                  DictSet(conversion_results, j,
                          [status |-> "completed",
                           output_path |-> j,
                           input_size |-> files[j].input,
                           output_size |-> files[j].output,
                           compression_ratio |-> 0])
            /\ wpc' = [wpc EXCEPT ![j] = "completed_status"]
            /\ UNCHANGED wl
       ELSE /\ wl' = [wl EXCEPT ![j].error_msg = "FFmpeg conversion process failed"]
            /\ wpc' = [wpc EXCEPT ![j] = "error_status"]
            /\ UNCHANGED conversion_results
    /\ response' = NoResponse
    /\ UNCHANGED <<offline, passlog, app, conversion_progress, request, hpc, settings, files, poller>>

\* The worker after convert_video_with_progress has returned: the test
\* `success and os.path.exists(output_path)`, the two sizes, the ratio and the
\* store into conversion_results; or the choice of the error message.  A
\* zero input size raises ZeroDivisionError while the result dict is built,
\* before anything is stored, and the handler's except takes over.
worker_check(j) ==
    /\ wpc[j] = "check"
    /\ IF wl[j].success /\ files[j].output # Absent
       THEN IF files[j].input = 0
            THEN /\ wl' = [wl EXCEPT ![j].error_msg = "Conversion error: division by zero"]
                 /\ wpc' = [wpc EXCEPT ![j] = "error_status"]
                 /\ UNCHANGED conversion_results
            ELSE /\ conversion_results' =
                       DictSet(conversion_results, j,
                               [status |-> "completed",
                                output_path |-> j,
                                input_size |-> files[j].input,
                                output_size |-> files[j].output,
                                compression_ratio |->
                                    compression_ratio(files[j].input, files[j].output)])
                 /\ wpc' = [wpc EXCEPT ![j] = "completed_status"]
                 /\ UNCHANGED wl
       ELSE /\ wl' = [wl EXCEPT ![j].error_msg =
                         IF ~wl[j].success THEN "FFmpeg conversion process failed"
                         ELSE "Conversion failed - output file not created"]
            /\ wpc' = [wpc EXCEPT ![j] = "error_status"]
            /\ UNCHANGED conversion_results
    /\ response' = NoResponse
    /\ UNCHANGED <<offline, passlog, app, conversion_progress, request, hpc, settings, files, poller>>

\* conversion_progress[conversion_id][key] = value
SetField(j, key, value) ==
    conversion_progress' =
        [conversion_progress EXCEPT ![j] = DictSet(conversion_progress[j], key, value)]

\* The finally clause of the unified worker: os.remove(input_path).
\* simple_video_converter's worker has no such clause.
CleanUp(j) ==
    files' = IF app = "unified" THEN [files EXCEPT ![j].input = Absent] ELSE files

\* conversion_progress[conversion_id]['status'] = 'completed'
worker_completed_status(j) ==
    /\ wpc[j] = "completed_status"
    /\ SetField(j, "status", "completed")
    /\ wpc' = [wpc EXCEPT ![j] = "completed_progress"]
    /\ response' = NoResponse
    /\ UNCHANGED <<offline, passlog, app, conversion_results, request, hpc, settings, wl, files, poller>>

\* Mutation: the clean-up runs inside the try and raises, so the except
\* branch runs after the job was marked completed.
worker_completed_progress_raises(j) ==
    /\ wpc[j] = "completed_progress"
    /\ conversion_progress' =
          [conversion_progress EXCEPT ![j] = DictSet(@, "progress", Pct(100))]
    /\ wl' = [wl EXCEPT ![j].error_msg = "Conversion error: file not found"]
    /\ wpc' = [wpc EXCEPT ![j] = "error_status"]
    /\ response' = NoResponse
    /\ UNCHANGED <<offline, passlog, app, conversion_results, request, hpc, settings, files, poller>>

\* conversion_progress[conversion_id]['progress'] = 100, then the finally.
worker_completed_progress(j) ==
    /\ wpc[j] = "completed_progress"
    /\ SetField(j, "progress", Pct(100))
    /\ CleanUp(j)
    /\ wpc' = [wpc EXCEPT ![j] = "end"]
    /\ response' = NoResponse
    /\ UNCHANGED <<offline, passlog, app, conversion_results, request, hpc, settings, wl, poller>>

\* Mutation: the failure branch leaves the status as it is.
worker_error_status_skipped(j) ==
    /\ wpc[j] = "error_status"
    /\ wpc' = [wpc EXCEPT ![j] = "error_progress"]
    /\ response' = NoResponse
    /\ UNCHANGED <<offline, passlog, app, conversion_progress, conversion_results, request, hpc,
                   settings, wl, files, poller>>

\* conversion_progress[conversion_id]['status'] = 'error'
\* (the else branch and the except branch alike).
worker_error_status(j) ==
    /\ wpc[j] = "error_status"
    /\ SetField(j, "status", "error")
    /\ wpc' = [wpc EXCEPT ![j] = "error_progress"]
    /\ response' = NoResponse
    /\ UNCHANGED <<offline, passlog, app, conversion_results, request, hpc, settings, wl, files, poller>>

\* conversion_progress[conversion_id]['progress'] = 0
worker_error_progress(j) ==
    /\ wpc[j] = "error_progress"
    /\ SetField(j, "progress", 0)
    /\ wpc' = [wpc EXCEPT ![j] = "error_message"]
    /\ response' = NoResponse
    /\ UNCHANGED <<offline, passlog, app, conversion_results, request, hpc, settings, wl, files, poller>>

\* conversion_progress[conversion_id]['error'] = error_msg, then the finally.
worker_error_message(j) ==
    /\ wpc[j] = "error_message"
    /\ SetField(j, "error", wl[j].error_msg)
    /\ CleanUp(j)
    /\ wpc' = [wpc EXCEPT ![j] = "end"]
    /\ response' = NoResponse
    /\ UNCHANGED <<offline, passlog, app, conversion_results, request, hpc, settings, wl, poller>>

----------------------------------------------------------------------------
(* GET /api/progress/<id>, GET /api/download/<id> *)

\* Mutation: the lookup stores a fresh record for an id it does not know
\* (setdefault) and answers with it.
get_progress_copy_setdefault(id) ==
    /\ poller.pc = "idle"
    /\ conversion_progress' =
          IF id \in DOMAIN conversion_progress THEN conversion_progress
          ELSE DictSet(conversion_progress, id, InitialProgress)
    /\ poller' = [pc |-> "copied", id |-> id, data |-> conversion_progress'[id]]
    /\ response' = NoResponse
    /\ UNCHANGED <<offline, passlog, app, conversion_results, request, hpc, settings, wpc, wl, files>>

\* get_progress, first half: the membership test and the copy of the record.
get_progress_copy(id) ==
    /\ poller.pc = "idle"
    /\ IF id \notin DOMAIN conversion_progress
       THEN /\ response' = Response("progress", id, 404, [error |-> "Conversion not found"])
            /\ poller' = poller
       ELSE /\ poller' = [pc |-> "copied", id |-> id, data |-> conversion_progress[id]]
            /\ response' = NoResponse
    /\ UNCHANGED <<offline, passlog, app, conversion_progress, conversion_results, request, hpc,
                   settings, wpc, wl, files>>

\* The body get_progress answers with: the copy, with the result merged in
\* when the copy says completed and a result is stored.
ProgressBody(data, id) ==
    IF data["status"] = "completed" /\ id \in DOMAIN conversion_results
    THEN DictUpdate(data, conversion_results[id])
    ELSE data

\* Mutation: no copy is taken, the result is merged into the registry's own
\* record.
get_progress_return_in_place ==
    /\ poller.pc = "copied"
    /\ conversion_progress' =
          DictSet(conversion_progress, poller.id,
                  ProgressBody(conversion_progress[poller.id], poller.id))
    /\ response' = Response("progress", poller.id, 200, conversion_progress'[poller.id])
    /\ poller' = IdlePoller
    /\ UNCHANGED <<offline, passlog, app, conversion_results, request, hpc, settings, wpc, wl, files>>

\* get_progress, second half: the merge and the answer.
get_progress_return ==
    /\ poller.pc = "copied"
    /\ response' = Response("progress", poller.id, 200, ProgressBody(poller.data, poller.id))
    /\ poller' = IdlePoller
    /\ UNCHANGED <<offline, passlog, app, conversion_progress, conversion_results, request, hpc,
                   settings, wpc, wl, files>>

\* Mutation: the file is sent without the os.path.exists test.
download_video_no_exists_test(id) ==
    /\ response' =
          IF id \notin DOMAIN conversion_results
          THEN Response("download", id, 404, [error |-> "Conversion not found or not completed"])
          ELSE Response("download", id, 200,
                        [file |-> conversion_results[id]["output_path"]])
    /\ UNCHANGED <<offline, passlog, app, conversion_progress, conversion_results, request, hpc,
                   settings, wpc, wl, files, poller>>

\* download_video.  Entries of conversion_results are never replaced or
\* removed, so its two reads of the registry are one step.
download_video(id) ==
    /\ response' =
          IF id \notin DOMAIN conversion_results
          THEN Response("download", id, 404, [error |-> "Conversion not found or not completed"])
          ELSE IF files[conversion_results[id]["output_path"]].output = Absent
          THEN Response("download", id, 404, [error |-> "Output file not found"])
          ELSE Response("download", id, 200,
                        [file |-> conversion_results[id]["output_path"]])
    /\ UNCHANGED <<offline, passlog, app, conversion_progress, conversion_results, request, hpc,
                   settings, wpc, wl, files, poller>>

\* The environment removes a converted file (the handlers test for it).
output_removed(j) ==
    /\ files[j].output # Absent
    /\ wpc[j] \in {"completed_status", "completed_progress", "end"}
    /\ files' = [files EXCEPT ![j].output = Absent]
    /\ response' = NoResponse
    /\ UNCHANGED <<offline, passlog, app, conversion_progress, conversion_results, request, hpc,
                   settings, wpc, wl, poller>>

----------------------------------------------------------------------------
(* Specifications *)

\* The POSTs that carry a file.
Uploads == {r \in Requests : r.file = "ok"}

\* The lines the service specification draws from: one progress line, at
\* the first second of the clip, and one line without progress.
ServiceLines ==
    {Line(TRUE, <<0, 0, 1>>, <<25>>, <<"1.1x">>), Line(FALSE, <<>>, <<>>, <<>>)}

\* The service: the first accepted job under every POST, probe result,
\* encoder outcome and poll, each step interleaved with the handlers.
Next ==
    \/ \E req \in Requests : convert_video(1, req)
    \/ start_worker(1)
    \/ return_conversion_id(1)
    \/ \E probe \in Probes, launches \in BOOLEAN : worker_begin(1, probe, launches)
    \/ \E line \in ServiceLines : progress_line(1, line)
    \/ \E rc \in {0, 1}, out \in OutputSizes \cup {Absent}, launches \in BOOLEAN :
          pass_exit(1, rc, out, launches)
    \/ worker_check(1)
    \/ worker_completed_status(1)
    \/ worker_completed_progress(1)
    \/ worker_error_status(1)
    \/ worker_error_progress(1)
    \/ worker_error_message(1)
    \/ \E id \in Ids : get_progress_copy(id)
    \/ get_progress_return
    \/ \E id \in Ids : download_video(id)
    \/ output_removed(1)

Spec == Init /\ [][Next]_vars

\* The same service run by either server module.
InitBoth ==
    /\ app \in {"unified", "simple"}
    /\ conversion_progress = EmptyDict
    /\ conversion_results = EmptyDict
    /\ request = [s \in Slots |-> NoRequest]
    /\ hpc = [s \in Slots |-> "idle"]
    /\ settings = [s \in Slots |-> JsonDict(EmptyDict)]
    /\ wpc = [s \in Slots |-> "none"]
    /\ wl = [s \in Slots |-> InitLocals]
    /\ files = [s \in Slots |-> [input |-> Absent, output |-> Absent]]
    /\ poller = IdlePoller
    /\ response = NoResponse
    /\ passlog = NoStats
    /\ monitor = NewHealthMonitor
    /\ validator = NoValidator

SpecBoth == InitBoth /\ [][Next]_vars

\* The passes: one job, single-pass or two-pass, under every probe result
\* and every encoder line.
PassUploads ==
    {r \in Uploads : r.size = 1000 /\ r.form.kind \in {"absent", "object"}}

NextPass ==
    \/ \E req \in PassUploads : convert_video(1, req)
    \/ start_worker(1)
    \/ return_conversion_id(1)
    \/ \E probe \in Probes : worker_begin(1, probe, TRUE)
    \/ \E line \in EncoderLines : progress_line(1, line)
    \/ \E rc \in {0, 1}, out \in {400, Absent} : pass_exit(1, rc, out, TRUE)
    \/ worker_check(1)
    \/ worker_completed_status(1)
    \/ worker_completed_progress(1)
    \/ worker_error_status(1)
    \/ worker_error_progress(1)
    \/ worker_error_message(1)

SpecPass == Init /\ [][NextPass]_vars

\* Concurrent jobs: MaxJobs accepted uploads, each with its own worker.
\* The handlers' answers, which touch neither registry nor worker, are left
\* to the service specification.
JobsUploads ==
    {r \in Uploads : r.size = 1000 /\ r.form.kind \in {"absent", "object"}}

NextJobs ==
    \/ \E s \in Slots, req \in JobsUploads : convert_video(s, req)
    \/ \E s \in Slots : start_worker(s)
    \/ \E j \in Slots : worker_begin(j, ProbeStream(Seconds(MaxSec)), TRUE)
    \/ \E j \in Slots : progress_line(j, Line(TRUE, <<0, 0, 1>>, <<25>>, <<"1.1x">>))
    \/ \E j \in Slots, rc \in {0, 1} :
          pass_exit(j, rc, IF rc = 0 /\ wpc[j] # "pass1" THEN 400 ELSE Absent, TRUE)
    \/ \E j \in Slots : worker_check(j)
    \/ \E j \in Slots : worker_completed_status(j)
    \/ \E j \in Slots : worker_completed_progress(j)
    \/ \E j \in Slots : worker_error_status(j)
    \/ \E j \in Slots : worker_error_progress(j)
    \/ \E j \in Slots : worker_error_message(j)

SpecJobs == Init /\ [][NextJobs]_vars

\* Concurrent two-pass jobs and the statistics file their encoders share.
NextStats ==
    \/ \E s \in Slots,
          req \in {r \in JobsUploads : DictGet(r.form.items, "twoPass", FALSE)} :
          convert_video(s, req)
    \/ \E s \in Slots : start_worker(s)
    \/ \E j \in Slots : worker_begin(j, ProbeStream(Seconds(MaxSec)), TRUE)
    \/ \E j \in Slots, rc \in {0, 1} :
          pass_exit(j, rc, IF rc = 0 /\ wpc[j] # "pass1" THEN 400 ELSE Absent, TRUE)
    \/ \E j \in Slots : pass2_reads_stats(j)
    \/ \E j \in Slots : worker_check(j)
    \/ \E j \in Slots : worker_completed_status(j)
    \/ \E j \in Slots : worker_completed_progress(j)
    \/ \E j \in Slots : worker_error_status(j)
    \/ \E j \in Slots : worker_error_progress(j)
    \/ \E j \in Slots : worker_error_message(j)

SpecStats == Init /\ [][NextStats]_vars

\* The progress arithmetic on a three-minute clip and on a clip of seven
\* seconds (whose fractions do not come out even), with positions of
\* seconds, minutes and an hour.
ClipProbes == {ProbeStream(Seconds(180)), ProbeStream(Seconds(7))}

ClipLines ==
    {Line(TRUE, t, <<25>>, <<"1.1x">>) :
        t \in {<<0, 0, 0>>, <<0, 0, 3>>, <<0, 0, 45>>, <<0, 1, 30>>, <<0, 3, 0>>, <<1, 0, 0>>}}

NextClip ==
    \/ \E req \in PassUploads : convert_video(1, req)
    \/ start_worker(1)
    \/ return_conversion_id(1)
    \/ \E probe \in ClipProbes : worker_begin(1, probe, TRUE)
    \/ \E line \in ClipLines : progress_line(1, line)
    \/ pass_exit(1, 0, IF wpc[1] = "pass1" THEN Absent ELSE 400, TRUE)
    \/ worker_check(1)
    \/ worker_completed_status(1)
    \/ worker_completed_progress(1)

SpecClip == Init /\ [][NextClip]_vars

\* The service under fair scheduling.  The handler of an accepted POST runs
\* on to thread.start() and to its return; the worker thread, once started,
\* is scheduled until it ends; and every encoder it launches closes its
\* stream and exits, so the loop over stderr ends in process.wait().  The
\* encoder may print any number of lines first, and clients poll or not as
\* they please: neither is fair.
HandlerStep(s) == start_worker(s) \/ return_conversion_id(s)

WorkerStep(j) ==
    \/ \E probe \in Probes, launches \in BOOLEAN : worker_begin(j, probe, launches)
    \/ \E rc \in {0, 1}, out \in {400, Absent}, launches \in BOOLEAN :
          pass_exit(j, rc, out, launches)
    \/ worker_check(j)
    \/ worker_completed_status(j)
    \/ worker_completed_progress(j)
    \/ worker_error_status(j)
    \/ worker_error_progress(j)
    \/ worker_error_message(j)

NextLive ==
    \/ \E req \in Requests : convert_video(1, req)
    \/ HandlerStep(1)
    \/ WorkerStep(1)
    \/ \E line \in ServiceLines : progress_line(1, line)
    \/ \E id \in Ids : get_progress_copy(id)
    \/ get_progress_return

SpecLive ==
    /\ Init
    /\ [][NextLive]_vars
    /\ WF_vars(HandlerStep(1))
    /\ WF_vars(WorkerStep(1))

\* Settings resolution in both server modules: one upload under every
\* settings object, followed as far as the launch of its first pass.
SettingsUploads ==
    {[file |-> "ok", size |-> 1000, form |-> f] :
        f \in FormSettings \cup {[kind |-> "object", items |-> d] : d \in SettingsObjects}}

NextSettings ==
    \/ \E req \in SettingsUploads : convert_video(1, req)
    \/ start_worker(1)
    \/ return_conversion_id(1)
    \/ worker_begin(1, ProbeStream(Seconds(MaxSec)), TRUE)

SpecSettings == InitBoth /\ [][NextSettings]_vars

\* The duration probe: one upload without settings under every inspection
\* result: up to two streams whose duration is missing, zero, ten seconds
\* or not a number, a container duration and a tool output that are missing,
\* a number or not a number, and an inspection call that raises.
DurationEntries(n) == {Missing, Seconds(n), NotANumber}

ProbeStreams ==
    LET E == DurationEntries(10) \cup {Seconds(0)} IN
    {<<>>} \cup {<<a>> : a \in E} \cup {<<a, b>> : a \in E, b \in E}

WideProbes ==
    {ProbeRaises}
    \cup [raises : {FALSE}, streams : ProbeStreams,
          format : DurationEntries(20), tool : DurationEntries(30)]

ProbeUploads == {r \in Uploads : r.size = 1000 /\ r.form.kind = "absent"}

NextProbe ==
    \/ \E req \in ProbeUploads : convert_video(1, req)
    \/ start_worker(1)
    \/ return_conversion_id(1)
    \/ \E probe \in WideProbes : worker_begin(1, probe, TRUE)
    \/ \E line \in ServiceLines : progress_line(1, line)
    \/ pass_exit(1, 0, 400, TRUE)
    \/ worker_check(1)
    \/ worker_completed_status(1)
    \/ worker_completed_progress(1)
    \/ worker_error_status(1)
    \/ worker_error_progress(1)
    \/ worker_error_message(1)

SpecProbe == Init /\ [][NextProbe]_vars

\* The commands: one upload in either server module under every choice of
\* resolution (the three the builder knows, original, and a token it does
\* not know), frame rate, two passes and preset, followed through its
\* passes.
CommandObjects ==
    {[k \in K |-> f[k]] :
        f \in [resolution : ScaledResolutions \cup {"original", "4k"},
               frameRate : {24, 30, 60}, twoPass : {TRUE}, preset : {"custom"}],
        K \in SUBSET {"resolution", "frameRate", "twoPass", "preset"}}

CommandUploads ==
    {[file |-> "ok", size |-> 1000, form |-> [kind |-> "object", items |-> d]] :
        d \in CommandObjects}

NextCommand ==
    \/ \E req \in CommandUploads : convert_video(1, req)
    \/ start_worker(1)
    \/ return_conversion_id(1)
    \/ worker_begin(1, ProbeStream(Seconds(MaxSec)), TRUE)
    \/ pass_exit(1, 0, IF wpc[1] = "pass1" THEN Absent ELSE 400, TRUE)
    \/ worker_check(1)
    \/ worker_completed_status(1)
    \/ worker_completed_progress(1)

SpecCommand == InitBoth /\ [][NextCommand]_vars

\* The time-to-progress computation on the times its branches provide
\* for: a three-minute clip, and progress data whose time has two
\* components (01:30, 00:45), three components, or a component float()
\* rejects.  The pattern of parse_ffmpeg_progress itself captures
\* three-component times of digits only.
TimeLines ==
    {Line(TRUE, t, <<25>>, <<"1.1x">>) :
        t \in {<<1, 30>>, <<0, 45>>, <<0, -1>>, <<0, 1, 30>>, <<0, -1, 5>>}}

NextTime ==
    \/ \E req \in PassUploads : convert_video(1, req)
    \/ start_worker(1)
    \/ return_conversion_id(1)
    \/ worker_begin(1, ProbeStream(Seconds(180)), TRUE)
    \/ \E line \in TimeLines : progress_line(1, line)
    \/ pass_exit(1, 0, IF wpc[1] = "pass1" THEN Absent ELSE 400, TRUE)
    \/ worker_check(1)
    \/ worker_completed_status(1)
    \/ worker_completed_progress(1)

SpecTime == Init /\ [][NextTime]_vars

----------------------------------------------------------------------------
(* api/video_converter.py: the ffmpeg-python / MoviePy service *)

\* An optional value: <<>> is Python's None, <<v>> the value v.
Null == <<>>
Some(v) == <<v>>

\* The locals of convert_thread and of the converter calls it makes.
\* `success`: the variable of convert_thread, Null until it is assigned.
\* `ffmpeg`: what convert_with_ffmpeg returned, Null until it returns.
\* `fallback`: convert_with_moviepy has been called.
\* `cleanup`: history of os.remove(first_pass_output): "none" until it is
\* called, then "removed" or "failed".
ThreadLocals ==
    [success |-> Null, ffmpeg |-> Null, fallback |-> FALSE, cleanup |-> "none"]

\* video_converter starts with empty registries too; `first_pass` is the
\* first-pass artifact pass1_<uuid>.webm of the job.
InitLegacy ==
    /\ app = "video_converter"
    /\ conversion_progress = EmptyDict
    /\ conversion_results = EmptyDict
    /\ request = [s \in Slots |-> NoRequest]
    /\ hpc = [s \in Slots |-> "idle"]
    /\ settings = [s \in Slots |-> JsonDict(EmptyDict)]
    /\ wpc = [s \in Slots |-> "none"]
    /\ wl = [s \in Slots |-> ThreadLocals]
    /\ files = [s \in Slots |-> [input |-> Absent, output |-> Absent, first_pass |-> Absent]]
    /\ poller = IdlePoller
    /\ response = NoResponse
    /\ passlog = NoStats
    /\ monitor = NewHealthMonitor
    /\ validator = NoValidator

\* conversion_progress[conversion_id] = progress
update_progress(conversion_id, progress) ==
    conversion_progress' = DictSet(conversion_progress, conversion_id, Pct(progress))

\* conversion_results[conversion_id].update(e)
results_update(conversion_id, e) ==
    conversion_results' =
        DictSet(conversion_results, conversion_id,
                DictUpdate(conversion_results[conversion_id], e))

\* round((1 - output_size / input_size) * 100, 2), in hundredths of a
\* percent: the nearest hundredth.
rounded_compression_ratio(input_size, output_size) ==
    (2 * (input_size - output_size) * Pct(100) + input_size) \div (2 * input_size)

\* convert_video of video_converter up to the point where the thread is
\* created: the 400 for a missing file part, json.loads of the settings
\* field (an exception reaches the outer except: 500), the 400 for an empty
\* file name, then the id, the saved upload and the two initial entries.
legacy_convert_video(s, req) ==
    /\ IF req.file = "missing"
       THEN /\ response' = Answer("convert", UnknownId, req, 400, [error |-> "No file provided"])
            /\ UNCHANGED <<conversion_progress, conversion_results, request, hpc,
                           settings, files>>
       ELSE IF json_loads(req.form).raised
       THEN /\ response' = Answer("convert", UnknownId, req, 500, [error |-> "exception"])
            /\ UNCHANGED <<conversion_progress, conversion_results, request, hpc,
                           settings, files>>
       ELSE IF req.file = "empty"
       THEN /\ response' = Answer("convert", UnknownId, req, 400, [error |-> "No file selected"])
            /\ UNCHANGED <<conversion_progress, conversion_results, request, hpc,
                           settings, files>>
       ELSE /\ hpc[s] = "idle"
            /\ \A t \in Slots : t < s => hpc[t] # "idle"
            /\ request' = [request EXCEPT ![s] = req]
            /\ settings' = [settings EXCEPT ![s] = json_loads(req.form).value]
            /\ files' = [files EXCEPT ![s].input = req.size]
            /\ conversion_progress' = DictSet(conversion_progress, s, 0)
            /\ conversion_results' =
                  DictSet(conversion_results, s,
                          [status |-> "processing",
                           input_path |-> InputPath(s),
                           output_path |-> "outputs/" \o Str(s) \o "_converted.webm",
                           error |-> Null])
            /\ hpc' = [hpc EXCEPT ![s] = "registered"]
            /\ response' = NoResponse
    /\ UNCHANGED <<offline, passlog, app, wpc, wl, poller>>

\* thread = threading.Thread(target=convert_thread); thread.start()
convert_thread_start(s) ==
    /\ hpc[s] = "registered"
    /\ hpc' = [hpc EXCEPT ![s] = "started"]
    /\ wpc' = [wpc EXCEPT ![s] = "ready"]
    /\ response' = NoResponse
    /\ UNCHANGED <<offline, passlog, app, conversion_progress, conversion_results, request, settings,
                   wl, files, poller>>

\* return jsonify({'conversion_id': ..., 'message': 'Conversion started'})
legacy_convert_video_return(s) ==
    /\ hpc[s] = "started"
    /\ hpc' = [hpc EXCEPT ![s] = "returned"]
    /\ response' = Answer("convert", s, request[s], 200,
                          [conversion_id |-> s, message |-> "Conversion started"])
    /\ UNCHANGED <<offline, passlog, app, conversion_progress, conversion_results, request, settings,
                   wpc, wl, files, poller>>

\* convert_with_ffmpeg returns False from its except clause: convert_thread
\* goes on to the fallback.
ffmpeg_returns_false(j) ==
    /\ wl' = [wl EXCEPT ![j].ffmpeg = Some(FALSE), ![j].success = Some(FALSE)]
    /\ wpc' = [wpc EXCEPT ![j] = "fallback"]

\* convert_with_ffmpeg returns True.
ffmpeg_returns_true(j) ==
    /\ wl' = [wl EXCEPT ![j].ffmpeg = Some(TRUE), ![j].success = Some(TRUE)]
    /\ wpc' = [wpc EXCEPT ![j] = "result"]

\* convert_with_ffmpeg, from its entry to the first ffmpeg.run: the settings
\* are read with settings.get (a settings value that is not a dict raises
\* into the except clause), the streams and output arguments are built,
\* and a two-pass job reports 25.
convert_with_ffmpeg_begin(j) ==
    /\ wpc[j] = "ready"
    /\ IF settings[j].type # "dict"
       THEN /\ ffmpeg_returns_false(j)
            /\ UNCHANGED conversion_progress
       ELSE IF DictGet(settings[j].items, "twoPass", FALSE)
       THEN /\ update_progress(j, 25)
            /\ wpc' = [wpc EXCEPT ![j] = "pass1"]
            /\ wl' = wl
       ELSE /\ wpc' = [wpc EXCEPT ![j] = "single"]
            /\ UNCHANGED <<conversion_progress, wl>>
    /\ response' = NoResponse
    /\ UNCHANGED <<offline, passlog, app, conversion_results, request, hpc, settings, files, poller>>

\* ffmpeg.run returns or raises ffmpeg.Error (`ok`).  After pass 1 the
\* artifact is on disk and 75 is reported; after pass 2 the output is on
\* disk and the cleanup is next; after the single pass the output is on
\* disk, 100 is reported and True returned.  Pass 1 also writes the
\* encoder's statistics file.
convert_with_ffmpeg_run(j, ok, out) ==
    /\ wpc[j] \in {"pass1", "pass2", "single"}
    /\ IF ~ok
       THEN /\ ffmpeg_returns_false(j)
            /\ UNCHANGED <<conversion_progress, files>>
       ELSE IF wpc[j] = "pass1"
       THEN /\ files' = [files EXCEPT ![j].first_pass = out]
            /\ update_progress(j, 75)
            /\ wpc' = [wpc EXCEPT ![j] = "pass2"]
            /\ wl' = wl
       ELSE IF wpc[j] = "pass2"
       THEN /\ files' = [files EXCEPT ![j].output = out]
            /\ wpc' = [wpc EXCEPT ![j] = "cleanup"]
            /\ UNCHANGED <<conversion_progress, wl>>
       ELSE /\ files' = [files EXCEPT ![j].output = out]
            /\ update_progress(j, 100)
            /\ ffmpeg_returns_true(j)
    /\ passlog' = IF ok /\ wpc[j] = "pass1" THEN j ELSE passlog
    /\ response' = NoResponse
    /\ UNCHANGED <<offline, app, conversion_results, request, hpc, settings, poller>>

\* os.remove(first_pass_output), inside the try block of convert_with_ffmpeg.
\* `removes`: the call succeeds; it cannot when the artifact is not there.
\* An OSError reaches the except clause of the function: False is returned
\* and 100 is not reported.
convert_with_ffmpeg_cleanup(j, removes) ==
    /\ wpc[j] = "cleanup"
    /\ IF removes /\ files[j].first_pass # Absent
       THEN /\ files' = [files EXCEPT ![j].first_pass = Absent]
            /\ update_progress(j, 100)
            /\ wl' = [wl EXCEPT ![j].ffmpeg = Some(TRUE), ![j].success = Some(TRUE),
                                ![j].cleanup = "removed"]
            /\ wpc' = [wpc EXCEPT ![j] = "result"]
       ELSE /\ wl' = [wl EXCEPT ![j].ffmpeg = Some(FALSE), ![j].success = Some(FALSE),
                                ![j].cleanup = "failed"]
            /\ wpc' = [wpc EXCEPT ![j] = "fallback"]
            /\ UNCHANGED <<conversion_progress, files>>
    /\ response' = NoResponse
    /\ UNCHANGED <<offline, passlog, app, conversion_results, request, hpc, settings, poller>>

\* The environment removes the first-pass artifact from the output
\* directory while the second pass runs.
first_pass_removed(j) ==
    /\ wpc[j] = "pass2"
    /\ files[j].first_pass # Absent
    /\ files' = [files EXCEPT ![j].first_pass = Absent]
    /\ response' = NoResponse
    /\ UNCHANGED <<offline, passlog, app, conversion_progress, conversion_results, request, hpc,
                   settings, wpc, wl, poller>>

\* `if not success:` convert_with_moviepy, up to its first report: the
\* settings are read, the clip is loaded (`ok`) and 30 is reported.  An
\* exception is caught by the function and False returned.
convert_with_moviepy_load(j, ok) ==
    /\ wpc[j] = "fallback"
    /\ IF settings[j].type # "dict" \/ ~ok
       THEN /\ wl' = [wl EXCEPT ![j].fallback = TRUE, ![j].success = Some(FALSE)]
            /\ wpc' = [wpc EXCEPT ![j] = "result"]
            /\ UNCHANGED conversion_progress
       ELSE /\ update_progress(j, 30)
            /\ wl' = [wl EXCEPT ![j].fallback = TRUE]
            /\ wpc' = [wpc EXCEPT ![j] = "moviepy_filters"]
    /\ response' = NoResponse
    /\ UNCHANGED <<offline, passlog, app, conversion_results, request, hpc, settings, files, poller>>

\* convert_with_moviepy: resize and set_fps, then 60 is reported.
convert_with_moviepy_filters(j) ==
    /\ wpc[j] = "moviepy_filters"
    /\ update_progress(j, 60)
    /\ wpc' = [wpc EXCEPT ![j] = "moviepy_write"]
    /\ response' = NoResponse
    /\ UNCHANGED <<offline, passlog, app, conversion_results, request, hpc, settings, wl, files, poller>>

\* convert_with_moviepy: clip.write_videofile returns (`ok`), 100 is
\* reported and True returned, or it raises and False is returned.
convert_with_moviepy_write(j, ok, out) ==
    /\ wpc[j] = "moviepy_write"
    /\ IF ok
       THEN /\ files' = [files EXCEPT ![j].output = out]
            /\ update_progress(j, 100)
            /\ wl' = [wl EXCEPT ![j].success = Some(TRUE)]
       ELSE /\ wl' = [wl EXCEPT ![j].success = Some(FALSE)]
            /\ UNCHANGED <<conversion_progress, files>>
    /\ wpc' = [wpc EXCEPT ![j] = "result"]
    /\ response' = NoResponse
    /\ UNCHANGED <<offline, passlog, app, conversion_results, request, hpc, settings, poller>>

\* convert_thread, `if success:`: the status is set to completed on its
\* own, before the sizes are taken; otherwise the error is stored.
convert_thread_status(j) ==
    /\ wpc[j] = "result"
    /\ IF wl[j].success = Some(TRUE)
       THEN /\ results_update(j, [status |-> "completed"])
            /\ wpc' = [wpc EXCEPT ![j] = "sizes"]
       ELSE /\ results_update(j, [status |-> "error", error |-> Some("Conversion failed")])
            /\ wpc' = [wpc EXCEPT ![j] = "finally"]
    /\ response' = NoResponse
    /\ UNCHANGED <<offline, passlog, app, conversion_progress, request, hpc, settings, wl, files, poller>>

\* convert_thread: os.path.getsize of both files, the ratio and the update
\* of the result.  A missing file (OSError) or an empty input
\* (ZeroDivisionError) reaches the except clause of the thread, which
\* stores status error and the text of the exception.
convert_thread_sizes(j) ==
    /\ wpc[j] = "sizes"
    /\ IF files[j].input = Absent \/ files[j].output = Absent
       THEN results_update(j, [status |-> "error", error |-> Some("OSError")])
       ELSE IF files[j].input = 0
       THEN results_update(j, [status |-> "error", error |-> Some("ZeroDivisionError")])
       ELSE results_update(j, [input_size |-> Some(files[j].input),
                               output_size |-> Some(files[j].output),
                               compression_ratio |->
                                   Some(rounded_compression_ratio(files[j].input,
                                                                  files[j].output))])
    /\ wpc' = [wpc EXCEPT ![j] = "finally"]
    /\ response' = NoResponse
    /\ UNCHANGED <<offline, passlog, app, conversion_progress, request, hpc, settings, wl, files, poller>>

\* convert_thread, finally: os.remove(input_path), any exception passed over.
convert_thread_finally(j) ==
    /\ wpc[j] = "finally"
    /\ files' = [files EXCEPT ![j].input = Absent]
    /\ wpc' = [wpc EXCEPT ![j] = "done"]
    /\ response' = NoResponse
    /\ UNCHANGED <<offline, passlog, app, conversion_progress, conversion_results, request, hpc,
                   settings, wl, poller>>

\* The environment removes the converted file from the output directory
\* after the conversion returned (download_converted tests for it).
legacy_output_removed(j) ==
    /\ wpc[j] \in {"result", "sizes"}
    /\ files[j].output # Absent
    /\ files' = [files EXCEPT ![j].output = Absent]
    /\ response' = NoResponse
    /\ UNCHANGED <<offline, passlog, app, conversion_progress, conversion_results, request, hpc,
                   settings, wpc, wl, poller>>

\* get_progress of video_converter, its two lookups: the progress value is
\* read, `result` is the stored dict itself, not a copy.
legacy_get_progress_lookup(id) ==
    /\ poller.pc = "idle"
    /\ poller' = [pc |-> "looked_up", id |-> id,
                  data |-> [progress |-> DictGet(conversion_progress, id, 0)]]
    /\ response' = NoResponse
    /\ UNCHANGED <<offline, passlog, app, conversion_progress, conversion_results, request, hpc,
                   settings, wpc, wl, files>>

\* get_progress of video_converter, the answer: the fields are read from
\* the stored dict with result.get, None for a key it does not have.
legacy_get_progress_return ==
    /\ poller.pc = "looked_up"
    /\ LET result == DictGet(conversion_results, poller.id, EmptyDict) IN
       response' = Response("progress", poller.id, 200,
                            [conversion_id |-> poller.id,
                             progress |-> poller.data["progress"],
                             status |-> DictGet(result, "status", "unknown"),
                             error |-> DictGet(result, "error", Null),
                             compression_ratio |-> DictGet(result, "compression_ratio", Null),
                             input_size |-> DictGet(result, "input_size", Null),
                             output_size |-> DictGet(result, "output_size", Null)])
    /\ poller' = IdlePoller
    /\ UNCHANGED <<offline, passlog, app, conversion_progress, conversion_results, request, hpc,
                   settings, wpc, wl, files>>

\* video_converter: the first accepted job under every POST, encoder and
\* fallback outcome, cleanup outcome and poll.
NextLegacy ==
    \/ \E req \in Requests : legacy_convert_video(1, req)
    \/ convert_thread_start(1)
    \/ legacy_convert_video_return(1)
    \/ convert_with_ffmpeg_begin(1)
    \/ \E ok \in BOOLEAN, out \in OutputSizes : convert_with_ffmpeg_run(1, ok, out)
    \/ \E removes \in BOOLEAN : convert_with_ffmpeg_cleanup(1, removes)
    \/ first_pass_removed(1)
    \/ \E ok \in BOOLEAN : convert_with_moviepy_load(1, ok)
    \/ convert_with_moviepy_filters(1)
    \/ \E ok \in BOOLEAN, out \in OutputSizes : convert_with_moviepy_write(1, ok, out)
    \/ convert_thread_status(1)
    \/ convert_thread_sizes(1)
    \/ convert_thread_finally(1)
    \/ legacy_output_removed(1)
    \/ \E id \in {1, UnknownId} : legacy_get_progress_lookup(id)
    \/ legacy_get_progress_return

SpecLegacy == InitLegacy /\ [][NextLegacy]_vars

----------------------------------------------------------------------------
(* monitor/health_monitor.py: the operations of HealthMonitor *)

\* The state of the conversion service, which the tools leave alone.
service == <<app, conversion_progress, conversion_results, request, hpc, settings,
             wpc, wl, files, poller, response, passlog>>

\* The callbacks the module defines.
Callbacks == {"console_alert_callback", "email_alert_callback"}

\* Whether callback cb is in the list.
Registered(cb) == \E i \in DOMAIN monitor.alert_callbacks : monitor.alert_callbacks[i] = cb

\* add_alert_callback
add_alert_callback(callback) ==
    /\ monitor' = [monitor EXCEPT !.alert_callbacks = Append(@, callback)]
    /\ UNCHANGED <<service, validator>>

\* check_health called directly, as main() does for the initial check.
check_health(outcome) ==
    /\ monitor' = check_health_by(monitor, NoThread, outcome)
    /\ UNCHANGED <<service, validator>>

\* start_monitoring: nothing when monitoring is active; otherwise the flag
\* is set and a new thread running _monitor_loop is created and started.
\* The calls come from one caller, one after another.
start_monitoring ==
    /\ ~monitor.joining
    /\ IF monitor.monitoring_active
       THEN monitor' = monitor
       ELSE \E t \in Threads :
               /\ monitor.loops[t] = "unstarted"
               /\ \A u \in Threads : u < t => monitor.loops[u] # "unstarted"
               /\ monitor' = [monitor EXCEPT !.monitoring_active = TRUE,
                                             !.monitor_thread = t,
                                             !.loops[t] = "test"]
    /\ UNCHANGED <<service, validator>>

\* stop_monitoring up to the join: nothing when monitoring is not active;
\* otherwise the flag is cleared and the caller joins the thread.
stop_monitoring ==
    /\ ~monitor.joining
    /\ monitor' = IF monitor.monitoring_active
                  THEN [monitor EXCEPT !.monitoring_active = FALSE, !.joining = TRUE]
                  ELSE monitor
    /\ UNCHANGED <<service, validator>>

\* self.monitor_thread.join(timeout=5) returns: the thread has ended, or
\* five seconds have passed with the thread still in its sleep of
\* check_interval = 30 seconds.  What the join returned is not looked at.
stop_monitoring_joined ==
    /\ monitor.joining
    /\ monitor.loops[monitor.monitor_thread] \in {"ended", "sleep"}
    /\ monitor' = [monitor EXCEPT !.joining = FALSE]
    /\ UNCHANGED <<service, validator>>

\* _monitor_loop: the test of `while self.monitoring_active`.
monitor_loop_test(t) ==
    /\ monitor.loops[t] = "test"
    /\ monitor' = [monitor EXCEPT !.loops[t] =
                      IF monitor.monitoring_active THEN "check" ELSE "ended"]
    /\ UNCHANGED <<service, validator>>

\* _monitor_loop: self.check_health(), then the thread enters
\* time.sleep(self.check_interval).
monitor_loop_check(t, outcome) ==
    /\ monitor.loops[t] = "check"
    /\ monitor' = [check_health_by(monitor, t, outcome) EXCEPT !.loops[t] = "sleep"]
    /\ UNCHANGED <<service, validator>>

\* _monitor_loop: the sleep of check_interval seconds is over.
monitor_loop_wakes(t) ==
    /\ monitor.loops[t] = "sleep"
    /\ monitor' = [monitor EXCEPT !.loops[t] = "test"]
    /\ UNCHANGED <<service, validator>>

\* Number of callbacks the model lets a monitor register.
MaxCallbacks == 2

\* The outcomes in S while fewer than `limit` checks have been performed.
Within(limit, S) == IF Len(monitor.performed) < limit THEN S ELSE {}

\* A monitor used from one thread: callbacks not yet registered are
\* registered, up to MaxCallbacks of them, and check_health is called, under
\* every outcome of every check.
NextMonitor ==
    \/ \E cb \in {c \in Callbacks : ~Registered(c)} :
          /\ Len(monitor.alert_callbacks) < MaxCallbacks
          /\ add_alert_callback(cb)
    \/ \E outcome \in Within(MaxChecks, Outcomes) : check_health(outcome)

SpecMonitor == Init /\ [][NextMonitor]_vars

\* Number of checks past max_history the long run makes.
ExtraChecks == 3
\* Number of checks at the start of the long run whose outcome is free.
FreeChecks == 2

\* The outcome of check n of the long run: free for the first checks, then
\* a refused connection on every fourth check.
LongRunOutcomes(n) ==
    IF n <= FreeChecks THEN {"ok", "refused"}
    ELSE IF n % 4 = 0 THEN {"refused"} ELSE {"ok"}

\* A monitor that performs more than max_history checks.
NextHistory ==
    \E outcome \in Within(max_history + ExtraChecks,
                          LongRunOutcomes(Len(monitor.performed) + 1)) :
        check_health(outcome)

SpecHistory == Init /\ [][NextHistory]_vars

\* A monitor under every sequence of start_monitoring and stop_monitoring
\* calls of one caller, interleaved with the steps of the loop threads.
NextLoops ==
    \/ start_monitoring
    \/ stop_monitoring
    \/ stop_monitoring_joined
    \/ \E t \in Threads : monitor_loop_test(t)
    \/ \E t \in Threads, outcome \in Within(MaxChecks, {"ok", "refused"}) :
          monitor_loop_check(t, outcome)
    \/ \E t \in Threads : monitor_loop_wakes(t)

SpecLoops == Init /\ [][NextLoops]_vars

----------------------------------------------------------------------------
(* scripts/validate_config.py: ConfigValidator.validate_all *)

\* What config.json holds.  "not_found": there is no file.  "empty": the
\* file holds {}.  "no_backend": services has no backend entry.
\* "no_port": the backend entry has no port.  "url_mismatch": every
\* section is there and api.base_url names another port.  "complete":
\* every section is there and consistent.
\*
\* The project directories validate_config may be pointed at: the state of
\* config.json, whether a required file other than config.json and
\* .env.example is missing, whether a Python file has a syntax error,
\* whether .env.example exists, and whether a startup script fails bash -n.
Projects ==
    [config : {"not_found", "empty", "no_backend", "no_port", "url_mismatch", "complete"},
     file_missing : BOOLEAN, syntax_error : BOOLEAN,
     env_example : BOOLEAN, bash_error : BOOLEAN]

\* ConfigValidator.__init__ with _load_config: a missing file is recorded
\* as an error.  `pc` is the index of the validation validate_all runs
\* next.  `returned` is history: for each validation that has run, what it
\* returned ("raised" when it raised) and whether its own checks failed.
ConfigValidator(project) ==
    [pc |-> 1,
     project |-> project,
     errors |-> IF project.config = "not_found"
                THEN <<"Configuration file not found">> ELSE <<>>,
     all_passed |-> TRUE,
     returned |-> <<>>]

\* `if not self.errors: return True else: return False` at the end of a
\* validation that has appended the messages in `found`: self.errors is
\* the list shared by all validations.
validation_result(found) ==
    IF validator.errors \o found = <<>> THEN "True" ELSE "False"

\* One iteration of the loop of validate_all: the validation appended
\* `found` and returned `result` ("raised": it raised, and validate_all
\* appends a message of its own); `failed`: its own checks failed.
validation_done(found, result, failed) ==
    /\ validator' =
          [validator EXCEPT
              !.pc = @ + 1,
              !.errors = IF result = "raised"
                         THEN @ \o found \o <<"Validation error">>
                         ELSE @ \o found,
              !.all_passed = @ /\ result = "True",
              !.returned = Append(@, [result |-> result, failed |-> failed])]
    /\ UNCHANGED <<service, monitor>>

\* main(): validator = ConfigValidator(project_root)
main_creates_validator(project) ==
    /\ validator.pc = 0
    /\ validator' = ConfigValidator(project)
    /\ UNCHANGED <<service, monitor>>

\* validate_config_structure: False at once for an empty config, otherwise
\* an error for every missing section or key.
validate_config_structure ==
    /\ validator.pc = 1
    /\ LET config == validator.project.config
           found == CASE config = "no_backend" ->
                           <<"Missing backend configuration in services section">>
                      [] config = "no_port" -> <<"Missing backend configuration key: port">>
                      [] OTHER -> <<>>
       IN  IF config \in {"not_found", "empty"}
           THEN validation_done(<<>>, "False", TRUE)
           ELSE validation_done(found, validation_result(found), found # <<>>)

\* validate_port_consistency: an error and False without a backend entry;
\* a KeyError for a backend entry without port; an error when api.base_url
\* does not match.
validate_port_consistency ==
    /\ validator.pc = 2
    /\ LET config == validator.project.config
           found == IF config = "url_mismatch"
                    THEN <<"API base_url doesn't match backend port">> ELSE <<>>
       IN  IF config \in {"not_found", "empty", "no_backend"}
           THEN validation_done(<<"Cannot validate ports - backend configuration missing">>,
                                "False", TRUE)
           ELSE IF config = "no_port"
           THEN validation_done(<<>>, "raised", TRUE)
           ELSE validation_done(found, validation_result(found), found # <<>>)

\* validate_file_existence: an error for every required file that is
\* missing; config.json and .env.example are among the required files.
validate_file_existence ==
    /\ validator.pc = 3
    /\ LET project == validator.project
           found == (IF project.config = "not_found"
                     THEN <<"Required file missing: config.json">> ELSE <<>>)
                    \o (IF project.file_missing
                        THEN <<"Required file missing: start.sh">> ELSE <<>>)
                    \o (IF ~project.env_example
                        THEN <<"Required file missing: .env.example">> ELSE <<>>)
       IN  validation_done(found, validation_result(found), found # <<>>)

\* validate_python_imports: an error for a file compile() rejects.
validate_python_imports ==
    /\ validator.pc = 4
    /\ LET found == IF validator.project.syntax_error
                    THEN <<"Syntax error in api/config.py">> ELSE <<>>
       IN  validation_done(found, validation_result(found), found # <<>>)

\* validate_environment_variables: an error and False without
\* .env.example; what the file lacks is recorded as warnings only.
validate_environment_variables ==
    /\ validator.pc = 5
    /\ IF ~validator.project.env_example
       THEN validation_done(<<".env.example file missing">>, "False", TRUE)
       ELSE validation_done(<<>>, validation_result(<<>>), FALSE)

\* validate_startup_scripts: an error for a script bash -n rejects.
validate_startup_scripts ==
    /\ validator.pc = 6
    /\ LET found == IF validator.project.bash_error
                    THEN <<"Bash syntax error in start.sh">> ELSE <<>>
       IN  validation_done(found, validation_result(found), found # <<>>)

\* validate_all on every project: the six validations in the order of the
\* list `validations`.
NextValidator ==
    \/ \E project \in Projects : main_creates_validator(project)
    \/ validate_config_structure
    \/ validate_port_consistency
    \/ validate_file_existence
    \/ validate_python_imports
    \/ validate_environment_variables
    \/ validate_startup_scripts

SpecValidator == Init /\ [][NextValidator]_vars

----------------------------------------------------------------------------
(* Properties *)

Terminal == {"completed", "error"}

\* The worker of job j is inside convert_video_with_progress or has not yet
\* decided the outcome.
Encoding(j) == wpc[j] \in {"ready", "single", "pass1", "pass2", "check"}

\* Slot s has been drawn as an id by an accepted POST.
Accepted(s) == s \in Slots /\ hpc[s] # "idle"

ProgressAnswer == response.endpoint = "progress"
DownloadAnswer == response.endpoint = "download"
ConvertAnswer == response.endpoint = "convert"

ResultFields == {"output_path", "input_size", "output_size", "compression_ratio"}

\* The position, in seconds, that a captured time H:MM:SS names.
PositionOf(time) == time[1] * 3600 + time[2] * 60 + time[3]

\* C1: once a job's progress record says completed or error, no step of any
\* worker or handler changes that status (checked with MaxJobs concurrent
\* jobs, SpecJobs).
C1_StatusNeverReverts ==
    [][\A j \in DOMAIN conversion_progress :
          conversion_progress[j]["status"] \in Terminal
          => /\ j \in DOMAIN conversion_progress'
             /\ conversion_progress'[j]["status"] = conversion_progress[j]["status"]]_vars

\* A job has ended while another one is still in a pass.
C1_Witness ==
    \E j, k \in Slots :
        /\ j # k
        /\ wpc[j] = "end"
        /\ conversion_progress[j]["status"] \in Terminal
        /\ wpc[k] \in {"pass1", "pass2"}
        /\ conversion_progress[k]["progress"] > 0

\* C2: an answer of GET /api/progress/<id> that reports completed carries
\* the four result fields.
C2_CompletedCarriesResult ==
    (ProgressAnswer /\ response.code = 200 /\ response.body["status"] = "completed")
    => ResultFields \subseteq DOMAIN response.body

\* A poll answered completed, from a copy taken before progress was set to 100.
C2_Witness ==
    /\ ProgressAnswer
    /\ response.code = 200
    /\ response.body["status"] = "completed"
    /\ response.body["progress"] # Pct(100)
    /\ response.body["compression_ratio"] = Pct(60)

\* C3: no answer of GET /api/progress/<id> shows completed with a progress
\* other than 100, and none shows error with a non-zero progress or without
\* an error message.
C3_TerminalWriteAtomic ==
    (ProgressAnswer /\ response.code = 200)
    => /\ response.body["status"] = "completed" => response.body["progress"] = Pct(100)
       /\ response.body["status"] = "error"
          => (response.body["progress"] = 0 /\ "error" \in DOMAIN response.body)

\* C4: in both server modules, a poll for an id no accepted POST drew is
\* answered 404 with an error body, and the registry holds no entry for
\* such an id.
C4_UnknownIdIs404 ==
    /\ (ProgressAnswer /\ ~Accepted(response.id))
       => (response.code = 404 /\ DOMAIN response.body = {"error"})
    /\ \A id \in Ids : ~Accepted(id) => id \notin DOMAIN conversion_progress
    /\ DOMAIN conversion_progress \subseteq Ids

\* simple_video_converter answers 404 for the unknown id while a job exists.
C4_Witness ==
    /\ app = "simple"
    /\ ProgressAnswer
    /\ response.id = UnknownId
    /\ response.code = 404
    /\ 1 \in DOMAIN conversion_progress

C6_RegisteredBeforeStart ==
    /\ \A s \in Slots :
          /\ (hpc[s] \in {"registered", "started", "returned"} \/ wpc[s] # "none")
             => s \in DOMAIN conversion_progress
          /\ (hpc[s] = "registered" /\ s \in DOMAIN conversion_progress)
             => (wpc[s] = "none" /\ conversion_progress[s] = InitialProgress)
    /\ (ProgressAnswer /\ response.id \in Slots /\ hpc[response.id] = "returned")
       => response.code = 200

\* A returned id is polled before its worker has run a step: the answer is
\* the initial record.
C6_Witness ==
    /\ ProgressAnswer
    /\ response.id \in Slots
    /\ hpc[response.id] = "returned"
    /\ wpc[response.id] = "ready"
    /\ response.code = 200
    /\ response.body = InitialProgress

\* A POST without a file part or with an empty file name is answered 400
\* with an error body, and the step that answers it changes neither registry,
\* draws no id and starts no worker.
C7_State ==
    (ConvertAnswer /\ response.request.file \in {"missing", "empty"})
    => (response.code = 400 /\ DOMAIN response.body = {"error"})

C7_Step ==
    (ConvertAnswer' /\ response'.request.file \in {"missing", "empty"})
    => UNCHANGED <<conversion_progress, conversion_results, hpc, wpc, files>>

\* C7: every rejected POST is answered 400 with an error body (C7_State) by
\* a step that registers nothing and starts nothing (C7_Step).
C7_RejectedPostRegistersNothing == []C7_State /\ [][C7_Step]_vars

\* An empty file name is answered 400 while an earlier job is encoding.
C7_Witness ==
    /\ ConvertAnswer
    /\ response.request.file = "empty"
    /\ response.code = 400
    /\ wpc[1] = "single"

\* C8: a POST whose settings field is malformed JSON is accepted like one
\* without the field: the job is created with the empty settings, its
\* effective settings are those of a POST that sends none, the answer is 200,
\* and settings resolution raises nothing in its worker.
NoSettingsForm == [kind |-> "absent", items |-> EmptyDict]

C8_MalformedSettingsAsDefaults ==
    /\ \A s \in Slots :
          request[s].form.kind = "malformed"
          => /\ s \in DOMAIN conversion_progress
             /\ settings[s] = JsonDict(EmptyDict)
             /\ wl[s].caught # "AttributeError"
             /\ wpc[s] \notin {"none", "ready"}
                => wl[s].final_settings =
                      apply_preset_settings(ParseSettings(NoSettingsForm).value).value
    /\ (ConvertAnswer /\ response.request.file = "ok"
                      /\ response.request.form.kind = "malformed")
       => (response.code = 200 /\ response.id \in DOMAIN conversion_progress)

\* A job submitted with malformed settings has completed.
C8_Witness ==
    /\ request[1].form.kind = "malformed"
    /\ hpc[1] = "returned"
    /\ wpc[1] = "end"
    /\ conversion_progress[1]["status"] = "completed"

\* C9 (as claimed): while pass 1 runs the recorded progress is at most 50, and
\* while pass 2 runs it is at least 50.
C9_Original ==
    \A j \in DOMAIN conversion_progress :
        /\ wpc[j] = "pass1" => conversion_progress[j]["progress"] <= Pct(50)
        /\ wpc[j] = "pass2" => conversion_progress[j]["progress"] >= Pct(50)

\* While pass 1 runs the recorded progress is at most 50, and every record
\* that pass 2 stores has a progress of at least 50 and at most 100; until
\* pass 2 stores its first record, the record is the one pass 1 left.
C9_State ==
    \A j \in DOMAIN conversion_progress :
        /\ wpc[j] = "pass1" => conversion_progress[j]["progress"] <= Pct(50)
        /\ (wpc[j] = "pass2" /\ wl[j].seen)
           => /\ conversion_progress[j]["progress"] >= Pct(50)
              /\ conversion_progress[j]["progress"] <= Pct(100)

C9_Step ==
    \A j \in DOMAIN conversion_progress :
        (wpc[j] = "pass2" /\ ~wl[j].seen /\ wpc'[j] = "pass2" /\ ~wl'[j].seen)
        => conversion_progress'[j] = conversion_progress[j]

\* C9 (amended): at most 50 during pass 1, every record pass 2 stores within
\* 50..100 (C9_State), and pass 2 leaves pass 1's record in place until it
\* stores its first one (C9_Step).
C9_TwoPassRanges == []C9_State /\ [][C9_Step]_vars

\* Pass 2 has stored a record strictly inside its range.
C9_Witness ==
    /\ wpc[1] = "pass2"
    /\ wl[1].seen
    /\ conversion_progress[1]["progress"] = Pct(75)

\* C10: within one pass, when a progress line reports a later position than
\* the progress line before it, the progress stored for it is not smaller.
C10_MonotoneWithinPass ==
    \A j \in DOMAIN conversion_progress :
        (wpc[j] \in {"single", "pass1", "pass2"} /\ wl[j].before # <<>>
           /\ PositionOf(conversion_progress[j]["time"]) > PositionOf(wl[j].before[1].time))
        => conversion_progress[j]["progress"] >= wl[j].before[1].progress

\* Two successive lines of pass 2 with increasing positions and increasing
\* progress.
C10_Witness ==
    /\ wpc[1] = "pass2"
    /\ wl[1].before # <<>>
    /\ wl[1].before[1].time = <<0, 0, 1>>
    /\ conversion_progress[1]["time"] = <<0, 1, 0>>
    /\ conversion_progress[1]["progress"] > wl[1].before[1].progress

\* C11: in every reachable state the progress stored in every job's record
\* lies between 0 and 100, whatever the encoder prints and however the job
\* ends.
C11_ProgressInRange ==
    \A j \in DOMAIN conversion_progress :
        /\ conversion_progress[j]["progress"] >= 0
        /\ conversion_progress[j]["progress"] <= Pct(100)

\* A single pass has reported a position past the end of the clip: the
\* stored progress is the cap.
C11_Witness ==
    /\ wpc[1] = "single"
    /\ wl[1].duration = MaxSec
    /\ PositionOf(conversion_progress[1]["time"]) > wl[1].duration
    /\ conversion_progress[1]["progress"] = Pct(100)

\* The floor and the ceiling of the range of the pass job j is in.
RangeLo(j) == IF wpc[j] = "pass2" THEN 50 ELSE 0
RangeHi(j) == IF wpc[j] = "pass1" THEN 50 ELSE 100

\* p is x / d cut to a whole number (of hundredths of a percent), d > 0.
IsQuotient(p, x, d) == p * d <= x /\ x < (p + 1) * d

\* C12: the record a pass has stored for a line with time H:MM:SS holds
\* progress lo + min(hi - lo, (H*3600 + MM*60 + SS) / D * (hi - lo)), where
\* D > 0 is the probed duration and [lo, hi] the range of the pass; time
\* 00:01:30 with D = 180 in a single pass gives 50.
C12_ProgressFormula ==
    /\ \A j \in DOMAIN conversion_progress :
          (wpc[j] \in {"single", "pass1", "pass2"} /\ wl[j].seen)
          => LET t == PositionOf(conversion_progress[j]["time"])
                 D == wl[j].duration
                 width == Pct(RangeHi(j) - RangeLo(j))
                 part == conversion_progress[j]["progress"] - Pct(RangeLo(j))
             IN  /\ D > 0
                 /\ IF t >= D THEN part = width
                    ELSE IsQuotient(part, t * width, D)
    /\ \A j \in DOMAIN conversion_progress :
          (wpc[j] = "single" /\ wl[j].seen /\ wl[j].duration = 180
             /\ conversion_progress[j]["time"] = <<0, 1, 30>>)
          => conversion_progress[j]["progress"] = Pct(50)

\* Pass 2 of a three-minute clip has stored the record for 00:01:30: 75.
C12_Witness ==
    /\ wpc[1] = "pass2"
    /\ wl[1].seen
    /\ wl[1].duration = 180
    /\ conversion_progress[1]["time"] = <<0, 1, 30>>
    /\ conversion_progress[1]["progress"] = Pct(75)

\* C13: the compression_ratio of every stored result is
\* (1 - output_size / input_size) * 100 of the two sizes stored with it
\* (1000 and 400 give 60), and it is negative exactly when the output is
\* larger than the input.
C13_CompressionRatio ==
    \A j \in DOMAIN conversion_results :
        LET r == conversion_results[j] IN
        /\ r["input_size"] > 0
        /\ IsQuotient(Pct(100) - r["compression_ratio"],
                      r["output_size"] * Pct(100), r["input_size"])
        /\ (r["input_size"] = 1000 /\ r["output_size"] = 400)
           => r["compression_ratio"] = Pct(60)
        /\ r["compression_ratio"] < 0 <=> r["output_size"] > r["input_size"]

\* A job has completed with an output half as large again as its input:
\* the ratio is -50.
C13_Witness ==
    /\ 1 \in DOMAIN conversion_results
    /\ conversion_progress[1]["status"] = "completed"
    /\ conversion_results[1]["output_size"] > conversion_results[1]["input_size"]
    /\ conversion_results[1]["compression_ratio"] = 0 - Pct(50)

\* The encode of job s has succeeded: every pass exited 0, the output file
\* is on disk and the upload was not empty.
EncodeSucceeded(s) ==
    /\ wpc[s] = "check"
    /\ wl[s].success
    /\ files[s].output # Absent
    /\ request[s].size # 0

\* C14: under fair scheduling, and with every encoder exiting, every
\* accepted job reaches status completed or error; and a job whose passes
\* all exited 0, whose output exists and whose input is not empty ends, for
\* good, as completed with progress 100.
C14_EventuallyTerminal ==
    /\ \A s \in Slots :
          Accepted(s) ~> (s \in DOMAIN conversion_progress
                          /\ conversion_progress[s]["status"] \in Terminal)
    /\ \A s \in Slots :
          EncodeSucceeded(s) ~> [](/\ s \in DOMAIN conversion_progress
                                   /\ conversion_progress[s]["status"] = "completed"
                                   /\ conversion_progress[s]["progress"] = Pct(100))

\* A two-pass job whose encoder printed progress has ended as completed
\* with progress 100.
C14_Witness ==
    /\ wpc[1] = "end"
    /\ DictGet(wl[1].final_settings, "twoPass", FALSE)
    /\ conversion_progress[1]["time"] # ZeroTime
    /\ conversion_progress[1]["status"] = "completed"
    /\ conversion_progress[1]["progress"] = Pct(100)

\* The settings object that came with the upload of slot s.
SuppliedSettings(s) == request[s].form.items

\* Slot s holds an upload with a settings object that names preset p.
NamesPreset(s, p) ==
    /\ request[s].form.kind = "object"
    /\ "preset" \in DOMAIN SuppliedSettings(s)
    /\ SuppliedSettings(s)["preset"] = p

\* C15: when the settings name a configured preset other than custom, the
\* settings apply_preset_settings returns hold every field the caller
\* supplied at its supplied value and every other field of the preset at
\* the preset's value.
C15_ExplicitOverPreset ==
    \A s \in Slots, p \in DOMAIN presets \ {"custom"} :
        (app = "unified" /\ NamesPreset(s, p) /\ wpc[s] \notin {"none", "ready"})
        => LET d == SuppliedSettings(s)
               final_settings == wl[s].final_settings
           IN  /\ DOMAIN final_settings = DOMAIN d \cup DOMAIN presets[p]
               /\ \A k \in DOMAIN d : final_settings[k] = d[k]
               /\ \A k \in DOMAIN presets[p] \ DOMAIN d : final_settings[k] = presets[p][k]

\* high-quality with an explicit quality: the explicit quality is kept,
\* the bitrate and the two passes are the preset's.
C15_Witness ==
    /\ app = "unified"
    /\ NamesPreset(1, "high-quality")
    /\ DOMAIN SuppliedSettings(1) = {"quality", "preset"}
    /\ wpc[1] = "pass1"
    /\ wl[1].final_settings["quality"] = 20
    /\ wl[1].final_settings["bitrate"] = 4000

\* The settings simple_video_converter's handler resolved for slot s.
ResolvedSettings(s) == settings[s].items

\* C16: in simple_video_converter, a field supplied together with a preset
\* other than custom keeps its supplied value in the resolved settings.
C16_ExplicitBeatsPreset ==
    \A s \in Slots, p \in PresetNames \ {"custom"} :
        (app = "simple" /\ NamesPreset(s, p) /\ Accepted(s))
        => \A k \in DOMAIN SuppliedSettings(s) :
              ResolvedSettings(s)[k] = SuppliedSettings(s)[k]

\* C17: in simple_video_converter, settings that name web-standard and
\* nothing else resolve to quality 32, bitrate 2000, resolution original,
\* frameRate 30 and twoPass false; settings that name custom resolve every
\* supplied field to its supplied value.
C17_WebStandardAndCustom ==
    \A s \in Slots :
        (app = "simple" /\ Accepted(s))
        => /\ (NamesPreset(s, "web-standard") /\ DOMAIN SuppliedSettings(s) = {"preset"})
              => ResolvedSettings(s) =
                    [quality |-> 32, bitrate |-> 2000, resolution |-> "original",
                     frameRate |-> 30, twoPass |-> FALSE, preset |-> "web-standard"]
           /\ NamesPreset(s, "custom")
              => \A k \in DOMAIN SuppliedSettings(s) :
                    ResolvedSettings(s)[k] = SuppliedSettings(s)[k]

\* custom with an explicit quality, bitrate and two passes: pass 1 runs
\* with the supplied values.
C17_Witness ==
    /\ app = "simple"
    /\ NamesPreset(1, "custom")
    /\ wpc[1] = "pass1"
    /\ ResolvedSettings(1)["quality"] = 20
    /\ ResolvedSettings(1)["bitrate"] = 500
    /\ ResolvedSettings(1)["twoPass"]

\* What the two registries hold for id b.
Entries(b) ==
    <<IF b \in DOMAIN conversion_progress THEN <<conversion_progress[b]>> ELSE <<>>,
      IF b \in DOMAIN conversion_results THEN <<conversion_results[b]>> ELSE <<>>>>

\* The step is one of the worker of job a: the worker was started and its
\* position, its locals or what the registries hold for a has changed.
WorkerActs(a) ==
    /\ wpc[a] # "none"
    /\ \/ wpc'[a] # wpc[a]
       \/ wl'[a] # wl[a]
       \/ Entries(a)' # Entries(a)

\* C18: with several jobs running at once, a step of the worker of job a
\* leaves the record and the result of every other job b as they were.
C18_WorkerWritesOwnEntries ==
    [][\A a \in Slots :
          WorkerActs(a) => \A b \in Ids \ {a} : Entries(b)' = Entries(b)]_vars

\* Two workers are encoding at the same time and have stored different
\* records, one in pass 2 and one in a single pass.
C18_Witness ==
    \E a, b \in Slots :
        /\ wpc[a] = "pass2"
        /\ wpc[b] = "single"
        /\ conversion_progress[a]["progress"] > Pct(50)
        /\ conversion_progress[b]["progress"] > 0
        /\ conversion_progress[a] # conversion_progress[b]

\* No record of the registry carries a field of a result.
C19_State ==
    \A id \in DOMAIN conversion_progress :
        DOMAIN conversion_progress[id] \cap ResultFields = {}

\* A step of get_progress or of download_video leaves both registries as
\* they were.
C19_Step ==
    (poller' # poller \/ ProgressAnswer' \/ DownloadAnswer')
    => UNCHANGED <<conversion_progress, conversion_results>>

\* C19: the progress and download handlers only read: no step of theirs, for
\* a known or an unknown id, changes conversion_progress or
\* conversion_results (C19_Step), and the result fields a progress answer
\* carries were merged into a copy, never into the registry's record
\* (C19_State).
C19_HandlersReadOnly == []C19_State /\ [][C19_Step]_vars

\* A poll was answered with the result merged in, and the registry's record
\* is still without it.
C19_Witness ==
    /\ ProgressAnswer
    /\ response.code = 200
    /\ "output_path" \in DOMAIN response.body
    /\ "output_path" \notin DOMAIN conversion_progress[response.id]
    /\ response.id \in DOMAIN conversion_results

\* Pass 1 of job j has exited with a code other than 0.
Pass1Failed(j) == wl[j].returncode1 # <<>> /\ wl[j].returncode1 # <<0>>

\* C20: a two-pass job is in pass 2 only after its pass 1 exited with code
\* 0; once pass 1 has exited with another code, pass 2 is never launched,
\* no result is stored, and the job ends in error.
C20_Pass2AfterPass1 ==
    /\ [](\A j \in Slots : wpc[j] = "pass2" => wl[j].returncode1 = <<0>>)
    /\ [](\A j \in Slots :
            Pass1Failed(j) => (wpc[j] # "pass2" /\ j \notin DOMAIN conversion_results))
    /\ \A j \in Slots :
          Pass1Failed(j) ~> [](/\ wpc[j] = "end"
                               /\ conversion_progress[j]["status"] = "error")

\* Pass 1 printed progress and exited with code 1, and the job has ended in
\* error with the encoder-failure message.
C20_Witness ==
    /\ wpc[1] = "end"
    /\ wl[1].returncode1 = <<1>>
    /\ conversion_progress[1]["time"] # ZeroTime
    /\ conversion_progress[1]["status"] = "error"
    /\ conversion_progress[1]["error"] = "FFmpeg conversion process failed"

OutputNotCreated == "Conversion failed - output file not created"

\* The worker of job j decides the outcome in this step.
Decides(j) == wpc[j] = "check" /\ wpc'[j] # "check"

\* When every pass exited 0 and the output file is not there, the deciding
\* step takes the failure branch and stores no result.
C21_Step ==
    \A j \in Slots :
        (Decides(j) /\ wl[j].success /\ files[j].output = Absent)
        => /\ wpc'[j] = "error_status"
           /\ wl'[j].error_msg = OutputNotCreated
           /\ j \notin DOMAIN conversion_results'

\* A job that took that branch never has a result nor the status completed,
\* ends in error with progress 0 and the message stored, and a download of
\* it is answered 404.
C21_State ==
    \A j \in Slots :
        wl[j].error_msg = OutputNotCreated
        => /\ j \notin DOMAIN conversion_results
           /\ conversion_progress[j]["status"] # "completed"
           /\ wpc[j] = "end"
              => /\ conversion_progress[j]["status"] = "error"
                 /\ conversion_progress[j]["progress"] = 0
                 /\ "error" \in DOMAIN conversion_progress[j]
                 /\ conversion_progress[j]["error"] = OutputNotCreated
           /\ (DownloadAnswer /\ response.id = j) => response.code = 404

\* C21: if every pass exits 0 but the output file does not exist when the
\* worker checks, the job ends in error, never completed, with the message
\* stored and no result recorded, and its download is answered 404.
C21_MissingOutputIsError == []C21_State /\ [][C21_Step]_vars

\* Such a job has ended and its download was answered 404.
C21_Witness ==
    /\ wpc[1] = "end"
    /\ wl[1].success
    /\ wl[1].error_msg = OutputNotCreated
    /\ conversion_progress[1]["status"] = "error"
    /\ DownloadAnswer
    /\ response.id = 1
    /\ response.code = 404

\* An exception was raised in the worker of job j: one that
\* convert_video_with_progress caught, or the division by a zero input size.
Raised(j) ==
    \/ wl[j].caught # ""
    \/ wl[j].error_msg = "Conversion error: division by zero"

\* C22: an exception raised at any step of a worker (settings resolution,
\* launching an encoder, the ratio computation) is caught inside the worker:
\* the worker goes on to the error writes and ends with status error,
\* progress 0 and a message stored; and no worker that has ended leaves its
\* job in processing.
C22_ExceptionsBecomeError ==
    \A j \in Slots :
        /\ wpc[j] = "end" => conversion_progress[j]["status"] \in Terminal
        /\ Raised(j)
           => /\ wpc[j] \in {"check", "error_status", "error_progress", "error_message", "end"}
              /\ j \notin DOMAIN conversion_results
              /\ wpc[j] = "end"
                 => /\ conversion_progress[j]["status"] = "error"
                    /\ conversion_progress[j]["progress"] = 0
                    /\ "error" \in DOMAIN conversion_progress[j]
                    /\ conversion_progress[j]["error"] # ""

\* A job whose settings were not a JSON object: the AttributeError was
\* caught and the job has ended in error.
C22_Witness ==
    /\ wpc[1] = "end"
    /\ wl[1].caught = "AttributeError"
    /\ request[1].form.kind = "nonobject"
    /\ conversion_progress[1]["status"] = "error"
    /\ conversion_progress[1]["progress"] = 0
    /\ conversion_progress[1]["error"] = "FFmpeg conversion process failed"

\* The probe of job j returned zero: convert_video_with_progress returned
\* False at its duration test, before any command was built.
ZeroDuration(j) ==
    /\ wpc[j] \notin {"none", "ready"}
    /\ wl[j].duration = 0
    /\ wl[j].caught = ""

\* C23: when the duration probe returns zero no encoder is launched, and
\* the job ends in error with a stored message that says the duration could
\* not be determined (the text the code logs at that point).
C23_ZeroDurationMessage ==
    \A j \in Slots :
        ZeroDuration(j)
        => /\ wpc[j] \notin {"single", "pass1", "pass2"}
           /\ files[j].output = Absent
           /\ wpc[j] = "end"
              => /\ conversion_progress[j]["status"] = "error"
                 /\ "error" \in DOMAIN conversion_progress[j]
                 /\ conversion_progress[j]["error"] = "Could not determine video duration"

\* The worker of job j has made its inspection.
Probed(j) == wl[j].probe # NoProbe

\* A duration entry that holds a number.
Yields(d) == d.present /\ d.numeric

\* None of the three strategies yields a duration for inspection result p.
NoStrategyYields(p) ==
    \/ p.raises
    \/ /\ \A i \in DOMAIN p.streams : ~Yields(p.streams[i])
       /\ ~Yields(p.format)
       /\ ~Yields(p.tool)

\* C24: get_video_duration raises nothing to its caller, and when no
\* strategy yields a duration (the inspection raises, the fields are absent
\* or unusable, the tool fails) it returns the default of 60 seconds, so the
\* job goes on to its encoder and is not put in error.
C24_ProbeFailureGivesDefault ==
    \A j \in Slots :
        (Probed(j) /\ NoStrategyYields(wl[j].probe))
        => /\ wl[j].duration = 60
           /\ wl[j].caught = ""
           /\ wpc[j] \notin {"error_status", "error_progress", "error_message"}
           /\ conversion_progress[j]["status"] # "error"

\* A job whose inspection raised has completed, its progress having been
\* computed against the default duration.
C24_Witness ==
    /\ wl[1].probe = ProbeRaises
    /\ wl[1].duration = DefaultDuration
    /\ wpc[1] = "end"
    /\ conversion_progress[1]["time"] = <<0, 0, 1>>
    /\ conversion_progress[1]["status"] = "completed"

\* Strategy x is among those the probe got to.
Tried(p, x) == \E i \in DOMAIN strategies_tried(p) : strategies_tried(p)[i] = x

\* The stream strategy gave a duration: the inspection did not raise and
\* the first stream entry that is present holds a number.
StreamYields(p) == ~p.raises /\ Yields(FirstStreamDuration(p.streams))

\* C25: the probe tries stream, container and tool in that order, each
\* failure (a raising inspection and an unparsable stream duration
\* included) leading to the next strategy, and the default is returned only
\* after all three were tried.
C25_StrategiesInOrder ==
    \A j \in Slots :
        Probed(j)
        => LET p == wl[j].probe IN
           /\ ~StreamYields(p) => Tried(p, "format")
           /\ (~StreamYields(p) /\ ~Yields(p.format)) => Tried(p, "tool")
           /\ duration_source(p) = "default"
              => strategies_tried(p) = <<"stream", "format", "tool">>

\* The arguments of a command, as a set.
Arguments(cmd) == {cmd[i] : i \in DOMAIN cmd}

\* Argument a is directly followed by argument b in cmd.
Followed(cmd, a, b) ==
    \E i \in DOMAIN cmd : i < Len(cmd) /\ cmd[i] = a /\ cmd[i + 1] = b

\* C26: every command unified_video_converter passes to the encoder, for a
\* single pass, for pass 1 and for pass 2, contains the overwrite flag -y.
C26_OverwriteFlagAlways ==
    \A j \in Slots :
        app = "unified"
        => \A i \in DOMAIN wl[j].launched : "-y" \in Arguments(wl[j].launched[i])

\* C27: in a two-pass job the final two arguments of the base command are
\* the container format and the output path; the pass-1 command is the base
\* command with them replaced by -pass 1 -f null -, the pass-2 command the
\* base command with them replaced by -pass 2 <output_path>, and every
\* other argument of the base command is in both, in order.
C27_PassCommands ==
    \A j \in Slots :
        (Len(wl[j].launched) = 2 /\ wpc[j] = "pass2")
        => LET base == wl[j].cmd
               n == Len(base)
               kept == SubSeq(base, 1, n - 2)
           IN  /\ base[n - 1] = "webm"
               /\ base[n] = OutputPath(j)
               /\ wl[j].launched[1] = kept \o <<"-pass", "1", "-f", "null", "-">>
               /\ wl[j].launched[2] = kept \o <<"-pass", "2", OutputPath(j)>>
               /\ \A a \in Arguments(base) \ {"webm", OutputPath(j)} :
                     /\ a \in Arguments(wl[j].launched[1])
                     /\ a \in Arguments(wl[j].launched[2])

\* The frame rate and the resolution a job's command was built for.
FrameRateOf(j) == DictGet(wl[j].final_settings, "frameRate", 30)
ResolutionOf(j) == DictGet(wl[j].final_settings, "resolution", "original")

\* C28: the command built by unified_video_converter has -vf scale=W:H
\* exactly when the resolution is 1920x1080, 1280x720 or 854x480; for
\* original and for a token it does not know it has no scale filter, is the
\* command built for original, and nothing was raised; and it has
\* -r <frameRate> exactly when the frame rate is not 30.
C28_ScaleAndFrameRate ==
    \A j \in Slots :
        (app = "unified" /\ wl[j].cmd # <<>>)
        => LET cmd == wl[j].cmd IN
           /\ "-vf" \in Arguments(cmd)
              <=> ResolutionOf(j) \in {"1920x1080", "1280x720", "854x480"}
           /\ ResolutionOf(j) = "1920x1080" => Followed(cmd, "-vf", "scale=1920:1080")
           /\ ResolutionOf(j) = "1280x720" => Followed(cmd, "-vf", "scale=1280:720")
           /\ ResolutionOf(j) = "854x480" => Followed(cmd, "-vf", "scale=854:480")
           /\ ResolutionOf(j) \notin {"1920x1080", "1280x720", "854x480"}
              => /\ cmd = build_ffmpeg_command(
                             InputPath(j), OutputPath(j),
                             DictSet(wl[j].final_settings, "resolution", "original"))
                 /\ \A a \in Arguments(cmd) : a \notin {"scale=4k", "scale=original"}
                 /\ wl[j].caught = ""
           /\ "-r" \in Arguments(cmd) <=> FrameRateOf(j) # 30
           /\ FrameRateOf(j) = 24 => Followed(cmd, "-r", "24")
           /\ FrameRateOf(j) = 60 => Followed(cmd, "-r", "60")

\* A single pass runs for resolution 4k at 60 frames: the command has the
\* frame rate and no filter.
C28_Witness ==
    /\ app = "unified"
    /\ wpc[1] = "single"
    /\ ResolutionOf(1) = "4k"
    /\ FrameRateOf(1) = 60
    /\ Followed(wl[1].cmd, "-r", "60")
    /\ "-vf" \notin Arguments(wl[1].cmd)

CleanupFailed(j) == wl[j].cleanup = "failed"

\* C30: in a two-pass conversion by convert_with_ffmpeg, when the removal of
\* the first-pass artifact fails after both passes succeeded, the function
\* still returns True, convert_with_moviepy is not called, and the job's
\* result does not become the error "Conversion failed".
C30_CleanupFailureSwallowed ==
    \A j \in Slots :
        CleanupFailed(j)
        => /\ wl[j].ffmpeg = Some(TRUE)
           /\ ~wl[j].fallback
           /\ wpc[j] # "fallback"
           /\ conversion_results[j]["error"] # Some("Conversion failed")

\* The status stored in the result record of job j, "" when there is none.
ResultStatus(results, j) ==
    IF j \in DOMAIN results THEN results[j]["status"] ELSE ""

\* C31: in video_converter.py a result record whose status is completed
\* keeps that status in every later step; no step of the worker, the size
\* stat and the ratio computation included, moves it to error.
C31_CompletedIsFinal ==
    [][\A j \in Slots :
          ResultStatus(conversion_results, j) = "completed"
          => ResultStatus(conversion_results', j) = "completed"]_vars

\* C32: in video_converter.py every answer of GET /api/progress/<id> whose
\* status is completed carries input_size, output_size and
\* compression_ratio that are not null, whenever the poll runs.
C32_CompletedAnswerHasSizes ==
    (app = "video_converter" /\ response.endpoint = "progress"
     /\ response.body["status"] = "completed")
    => /\ response.body["input_size"] # Null
       /\ response.body["output_size"] # Null
       /\ response.body["compression_ratio"] # Null

\* C33: in video_converter.py GET /api/progress/<id> for an id no POST was
\* given answers 404 with an error body.
C33_LegacyUnknownIdIs404 ==
    (app = "video_converter" /\ response.endpoint = "progress"
     /\ response.id = UnknownId)
    => /\ response.code = 404
       /\ "error" \in DOMAIN response.body

\* The statuses of the checks a monitor has performed, in order.
Performed == monitor.performed

\* The number of unhealthy checks in a row that check n ends (0 when check
\* n is healthy).
RECURSIVE FailureRun(_)
FailureRun(n) ==
    IF n = 0 \/ Performed[n].status.is_healthy THEN 0 ELSE 1 + FailureRun(n - 1)

\* C34: check_health invokes the registered callbacks on exactly the checks
\* that are unhealthy and are the third or a later check of an unbroken run
\* of unhealthy checks, and on no other check; consecutive_failures is the
\* length of the run of unhealthy checks the latest check ends, so it is 0
\* after a healthy check and one more after each unhealthy one.
C34_AlertFromThirdFailure ==
    /\ monitor.consecutive_failures = FailureRun(Len(Performed))
    /\ \A n \in DOMAIN Performed :
          Performed[n].invoked =
              IF FailureRun(n) >= 3 THEN Performed[n].registered ELSE <<>>

\* A third unhealthy check in a row has invoked a callback, and a later
\* healthy check has reset the counter.
C34_Witness ==
    /\ Len(Performed) = 4
    /\ FailureRun(3) = 3
    /\ Performed[3].invoked # <<>>
    /\ Performed[2].invoked = <<>>
    /\ Performed[4].status.is_healthy
    /\ monitor.consecutive_failures = 0

\* A step stores a new progress record for job j and the job is processing
\* before and after it.
WritesProgress(j) ==
    /\ j \in DOMAIN conversion_progress
    /\ conversion_progress[j]["status"] = "processing"
    /\ conversion_progress'[j]["status"] = "processing"
    /\ conversion_progress'[j] # conversion_progress[j]

\* The record the step stores is at an earlier position than the record
\* the same pass stored before it.
StepsBack(j) ==
    /\ wl[j].seen
    /\ PositionOf(conversion_progress'[j]["time"]) < PositionOf(conversion_progress[j]["time"])

\* C35 (as claimed): while a job is processing, no write lowers the progress
\* in its record, whatever lines the encoder prints.
C35_Original ==
    [][\A j \in Slots :
          WritesProgress(j)
          => conversion_progress'[j]["progress"] >= conversion_progress[j]["progress"]]_vars

\* C35 (amended): while a job is processing, a write lowers the progress in
\* its record only when its line reports an earlier position than the line
\* the same pass stored before it; the first write of a pass, the first
\* write of pass 2 after pass 1 included, never lowers it.
C35_ProgressNeverDecreases ==
    [][\A j \in Slots :
          (WritesProgress(j) /\ ~StepsBack(j))
          => conversion_progress'[j]["progress"] >= conversion_progress[j]["progress"]]_vars

\* Pass 2 has stored its first record, above the 50 that bounds what pass 1
\* stored.
C35_Witness ==
    /\ wpc[1] = "pass2"
    /\ wl[1].seen
    /\ wl[1].before = <<>>
    /\ conversion_progress[1]["progress"] > Pct(50)
    /\ conversion_progress[1]["progress"] < Pct(100)

\* C36: whenever GET /api/download/<id> serves the output file, the progress
\* record of the job says completed at that moment, so that a poll made
\* then reports completed: a job is never downloadable while its record
\* says processing.
C36_DownloadableOnlyWhenCompleted ==
    (app = "unified" /\ response.endpoint = "download" /\ response.code = 200)
    => conversion_progress[response.id]["status"] = "completed"

\* C37: when two-pass jobs run concurrently, the statistics the encoder of
\* a job's pass 2 reads are the ones the same job's pass 1 wrote, never
\* those of another job (the commands of a job would name a statistics
\* file of its own).
C37_OwnFirstPassStatistics ==
    \A j \in Slots : wl[j].stats # <<>> => wl[j].stats = <<j>>

\* C38: after any sequence of checks health_history holds at most
\* max_history entries, and they are the statuses of the most recent checks
\* in the order the checks were performed; once more than max_history
\* checks have been made, the oldest ones are the ones that are gone.
C38_HistoryKeepsLatest ==
    LET history == monitor.health_history
        n == Len(Performed)
        k == IF n < max_history THEN n ELSE max_history
    IN  /\ Len(history) = k
        /\ \A i \in 1..k : history[i] = Performed[n - k + i].status

\* Two checks more than max_history have been made: the history is full
\* and starts at the third check.
C38_Witness ==
    /\ Len(Performed) = max_history + 2
    /\ Len(monitor.health_history) = max_history
    /\ monitor.health_history[1].timestamp = 3
    /\ monitor.health_history[max_history].timestamp = max_history + 2

\* Every check a loop thread has made was made by the thread the latest
\* start_monitoring created.
OnlyCurrentLoopChecks ==
    \A n \in DOMAIN Performed :
        Performed[n].thread # NoThread
        => Performed[n].thread = Performed[n].monitor_thread

\* While monitoring is active no step starts a thread.
NoSecondStart ==
    monitor.monitoring_active
    => \A t \in Threads :
          monitor.loops[t] = "unstarted" => monitor'.loops[t] = "unstarted"

\* C39: under any sequence of start_monitoring and stop_monitoring calls at
\* most one loop thread performs health checks: a start while monitoring is
\* active starts no thread, and once a later start has begun a new loop the
\* loop of an earlier start makes no further check.
C39_SingleMonitorLoop == []OnlyCurrentLoopChecks /\ [][NoSecondStart]_vars

\* C40: in validate_all every validation whose own checks find no error
\* returns True, also when a validation that ran before it recorded an
\* error, and all six validations have run when validate_all is through.
C40_ValidationsIndependent ==
    /\ \A k \in DOMAIN validator.returned :
          ~validator.returned[k].failed => validator.returned[k].result = "True"
    /\ validator.pc = 7 => Len(validator.returned) = 6

====
